---- MODULE Spec2Model ----
(***************************************************************************)
(* Extract / stage / reconcile synchronisation of Snowflake tables into    *)
(* BigQuery, as implemented by the sync entry points of this repository.   *)
(*                                                                         *)
(* A table is a bag of rows, written as a function from the row universe   *)
(* to the number of copies.  One behaviour follows one pipeline (one       *)
(* target table) through up to MaxRuns invocations; between invocations    *)
(* the Snowflake source may change.  Every call to Snowflake or BigQuery   *)
(* either succeeds or raises, by the service's choice.                     *)
(***************************************************************************)
EXTENDS Integers, Sequences, FiniteSets, TLC

\* ---------------------------------------------------------------- bounds
MaxId == 3          \* primary keys of a dimension table
MaxWorkItem == 2    \* work item ids of a fact table
MaxUser == 2        \* users of a work item (budget tables)
MaxDate == 1        \* reporting dates 0..MaxDate, 0 is today
MaxVal == 2         \* payload values of a row
MaxRows == 3        \* rows of a source table
MaxRuns == 2        \* invocations in one behaviour
MaxChanges == 1     \* source changes between invocations
BatchSize == 2      \* LIMIT of one paginated query (1000 / 5000 in the code)
WindowDays == 0     \* reporting dates 0..WindowDays lie in the synced window
KeyLimit == 2       \* keys the smart delete compares against (1000 in the code)
ChunkDays == 2      \* days in one date chunk (chunk_days)
LastDay == 4        \* the last day a chunk may end on, counted from the first day
MaxRecords == 3     \* sync records after which no invocation selects another chunk
MaxDaysBehind == 4  \* days a monitored table may be behind
MaxColumns == 2     \* columns of a table whose schema is derived
MaxVersion == 2     \* versions a secret has in one behaviour
MaxTableRows == 3   \* rows the tables of the deduplication sync hold together
MaxEntries == 3     \* rows of USER_TIME_ENTRY_BQ
MaxEntryKey == 2    \* (REPORTING_DATE, TIME_ENTRY_ID) pairs of time entries
MaxTimestamp == 2   \* statements that take CURRENT_TIMESTAMP()
MaxCallers == 2     \* threads whose get_connection calls are followed to their end

\* retry_on_timeout(max_retries=3, ...)
MaxRetries == 3

\* SnowflakeConnectionPool.__init__: self.max_connections = 3
max_connections == 3

\* get_connection(self, retry_attempts: int = 3)
retry_attempts == 3

\* MONITORING_CONFIG: thresholds of every monitored table
warning_threshold_days == 1
critical_threshold_days == 3

\* The tables of MONITORING_CONFIG, in the order of the dict.
Tables == 1..3

\* Secrets get_snowflake_credentials reads, in its order (two of the six).
SecretIds == <<"SNOWFLAKE_USER", "SNOWFLAKE_PASSWORD">>

\* tables_to_clean of the deduplication sync, without WORK_ITEM_DETAILS_BQ.
OtherTables == {"WORK_ITEM_BUDGET_VS_ACTUAL_BQ", "USER_TIME_ENTRY_BQ"}

\* Threads of batch_pipeline_handler's executor that use the pool at once: one more
\* than the pool's cap (the executor admits five).
Workers == 1..(max_connections + 1)

Callers == 1..MaxCallers

Ids == 1..MaxId
Users == 1..MaxUser
Dates == 0..MaxDate
Vals == 1..MaxVal
Today == 0

\* A row: the key columns and one payload column.
Rows == [id : Ids, user : Users, date : Dates, v : Vals]

Min(a, b) == IF a < b THEN a ELSE b

\* ---------------------------------------------------------------- pipelines
UnifiedFull == "unified_full"
UnifiedIncr == "unified_incr"
DetailsDaily == "work_item_details_daily"
DetailsFull == "work_item_details_full"
TenantMember == "tenant_team_member_dimension"
TenantTeam == "tenant_team_dimension"
TimeDetails == "user_time_entry"
TimeDaily == "user_time_entry_daily"
BudgetDaily == "work_item_budget_vs_actual_daily"
BudgetBackup == "work_item_budget_vs_actual_daily_backup"
BudgetProgressive == "work_item_budget_vs_actual_progressive"

Pipelines ==
    {UnifiedFull, UnifiedIncr, DetailsDaily, DetailsFull, TenantMember, TenantTeam,
     TimeDetails, TimeDaily, BudgetDaily, BudgetBackup, BudgetProgressive}

\* Tables with a single-column primary key and no reporting date.
KeyedPipelines == {UnifiedFull, UnifiedIncr, TenantMember, TenantTeam, TimeDetails}

\* WORK_ITEM_DETAILS and, in the daily sync of the time entries, USER_TIME_ENTRY_DETAIL:
\* one row per id and reporting date.
DetailsPipelines == {DetailsDaily, DetailsFull, TimeDaily}

\* WORK_ITEM_BUDGET_VS_ACTUAL: one row per work item, user and reporting date.
BudgetPipelines == {BudgetDaily, BudgetBackup, BudgetProgressive}

\* The rows a pipeline's source table can hold.
SourceRows(p) ==
    IF p \in KeyedPipelines THEN {r \in Rows : r.user = 1 /\ r.date = Today}
    ELSE IF p \in DetailsPipelines THEN {r \in Rows : r.user = 1 /\ r.id <= MaxWorkItem}
    ELSE {r \in Rows : r.id <= MaxWorkItem}

\* What identifies a row in the source table.
Identity(p, r) ==
    IF p \in KeyedPipelines THEN <<r.id>>
    ELSE IF p \in DetailsPipelines THEN <<r.id, r.date>>
    ELSE <<r.id, r.user, r.date>>

\* The subsets of S with at most k elements.
RECURSIVE SubsetsUpTo(_, _)
SubsetsUpTo(S, k) ==
    IF k = 0 \/ S = {} THEN {{}}
    ELSE LET x == CHOOSE y \in S : TRUE
         IN SubsetsUpTo(S \ {x}, k)
            \cup {T \cup {x} : T \in SubsetsUpTo(S \ {x}, k - 1)}

\* A source table holds one row per identity.
UniqueRows(p, S) == \A r1, r2 \in S : Identity(p, r1) = Identity(p, r2) => r1 = r2

\* The source before the first invocation: every row still has its first payload.
InitSources(p) ==
    {S \in SubsetsUpTo({r \in SourceRows(p) : r.v = 1}, MaxRows) : UniqueRows(p, S)}

\* The sources one INSERT, DELETE or UPDATE of a row away from S.
ChangedSources(p, S) ==
    {S \ {r} : r \in S}
    \cup {S \cup {r} : r \in {t \in SourceRows(p) :
                                   Cardinality(S) < MaxRows /\ UniqueRows(p, S \cup {t})} \ S}
    \cup UNION {{(S \ {r}) \cup {t} :
                    t \in {u \in SourceRows(p) : Identity(p, u) = Identity(p, r)} \ {r}} :
                r \in S}

\* ---------------------------------------------------------------- tables
\* A table of pipeline p: how many copies of each row it holds.
EmptyTable(p) == [r \in SourceRows(p) |-> 0]

Present(T) == {r \in DOMAIN T : T[r] > 0}

RECURSIVE SumOver(_, _)
SumOver(T, S) ==
    IF S = {} THEN 0
    ELSE LET x == CHOOSE y \in S : TRUE IN T[x] + SumOver(T, S \ {x})

RowCount(T) == SumOver(T, DOMAIN T)

\* insert_rows_json / WRITE_APPEND: every row of the batch is appended.
AppendRows(T, batch) ==
    [r \in DOMAIN T |-> T[r] + Cardinality({i \in DOMAIN batch : batch[i] = r})]

\* INSERT INTO T SELECT * FROM S.
InsertSelect(T, S) == [r \in DOMAIN T |-> T[r] + S[r]]

\* DELETE FROM T WHERE the row is in D.
DeleteRows(T, D) == [r \in DOMAIN T |-> IF r \in D THEN 0 ELSE T[r]]

\* ---------------------------------------------------------------- reconcile
\* The columns of the MERGE statement's ON clause.
MergeKey(p, r) == IF p \in KeyedPipelines THEN <<r.id>> ELSE <<r.id, r.date>>

SameKey(p, r) == {t \in SourceRows(p) : MergeKey(p, t) = MergeKey(p, r)}

\* BigQuery rejects a MERGE in which a target row matches more than one source row.
MergeFails(p, T, S) == \E t \in Present(T) : SumOver(S, SameKey(p, t)) > 1

\* MERGE T USING S ON key: WHEN MATCHED THEN UPDATE SET every column,
\* WHEN NOT MATCHED THEN INSERT.  A target row no staged row matches stays.
MergeResult(p, T, S) ==
    [r \in DOMAIN T |->
        (IF SumOver(S, SameKey(p, r)) > 0 THEN 0 ELSE T[r])
        + (IF S[r] = 0 THEN 0
           ELSE IF SumOver(T, SameKey(p, r)) > 0 THEN SumOver(T, SameKey(p, r))
           ELSE S[r])]

\* ROW_NUMBER() OVER (PARTITION BY key ORDER BY key) = 1: one row of every key
\* group is kept, and the ORDER BY does not say which.
DedupResults(p, T) ==
    {[r \in DOMAIN T |-> IF r \in C THEN 1 ELSE 0] :
        C \in {D \in SUBSET Present(T) :
                 \A t \in Present(T) : Cardinality(D \cap SameKey(p, t)) = 1}}

\* ---------------------------------------------------------------- stale cleanup
\* record_key of the smart delete: (WORK_ITEM_ID, USER_ID, USER_NAME).
RecordKey(r) == <<r.id, r.user>>

\* list(current_snowflake_keys)[:1000]: any KeyLimit of the collected keys.
KeyChoices(K) ==
    {C \in SUBSET K : Cardinality(C) = Min(Cardinality(K), KeyLimit)}

\* DELETE ... WHERE REPORTING_DATE = today AND (id, user, name) NOT IN (keys).
SmartDeleted(T, K) == {r \in Present(T) : r.date = Today /\ RecordKey(r) \notin K}

\* DELETE ... WHERE REPORTING_DATE BETWEEN start AND end.
WindowRows(T) == {r \in Present(T) : r.date <= WindowDays}

\* DELETE ... WHERE REPORTING_DATE BETWEEN start AND end
\*   AND CONCAT(WORK_ITEM_ID, '|', REPORTING_DATE) NOT IN (SELECT ... FROM temp).
NotStaged(T, S) ==
    {r \in WindowRows(T) : \A s \in Present(S) : <<s.id, s.date>> # <<r.id, r.date>>}

\* ---------------------------------------------------------------- queries
RECURSIVE Perms(_)
Perms(S) ==
    IF S = {} THEN {<<>>}
    ELSE UNION {{<<x>> \o s : s \in Perms(S \ {x})} : x \in S}

\* ORDER BY columns of a pipeline's paginated query, as one number.
OrderKey(p, r) == IF p \in KeyedPipelines THEN r.id ELSE r.id * (MaxDate + 1) + r.date

\* The orders in which a query with that ORDER BY can return the rows S.
QueryOrders(p, S) ==
    {s \in Perms(S) : \A i \in 1..(Len(s) - 1) : OrderKey(p, s[i]) <= OrderKey(p, s[i + 1])}

\* WHERE clause of a pipeline's query: the rows of the date window being synced.
InWindow(d) == d <= WindowDays
Selected(p, S) == {r \in S : InWindow(r.date)}

\* A page that starts at row off instead of after it.
PageFromOffsetRow(s, off, limit) ==
    IF off = 0 THEN SubSeq(s, 1, Min(limit, Len(s)))
    ELSE SubSeq(s, off, Min(off + limit - 1, Len(s)))

\* LIMIT limit OFFSET off of an ordered result.
Page(s, off, limit) == SubSeq(s, off + 1, Min(off + limit, Len(s)))

\* ---------------------------------------------------------------- state
VARIABLES
    pipeline,       \* the pipeline this behaviour follows
    pc,             \* position of the running invocation
    run,            \* invocations started so far
    source,         \* rows of the Snowflake table
    changes,        \* source changes since the previous invocation
    targetExists,   \* the BigQuery target table exists
    target,         \* its rows
    stagingExists,  \* the temp table of this invocation exists
    staging,        \* its rows
    tempDefined,    \* temp_table_id is bound in this invocation
    offset,
    total_rows,
    rows,           \* the batch last fetched
    attempt,        \* failed attempts of the call being retried
    outcome,        \* what the entry point gave its caller
    failure,        \* the step that raised first in this invocation
    cleanupFailed,  \* a delete_table of the temp table raised
    stagingCreated, \* this invocation created its temp table
    stagingExpires, \* the temp table was created with an expiry
    reported,       \* the failed step whose error the caller is given
    lastOutcome,    \* what the previous invocation gave its caller
    next_offset,    \* next_offset of the last response (one-batch entry point)
    tracker,        \* rows appended to the sync tracker table
    keys,           \* current_snowflake_keys
    timedOut,       \* the extraction loop stopped at its time limit
    deleted,        \* target rows removed by the stale cleanup of this invocation
    targetBefore,   \* target rows when the invocation started
    stmts,          \* statements run against the target in this invocation
    batches,        \* the non-empty batches fetched in this invocation
    dry_run,        \* pipeline_handler took the dry_run arm for this invocation
    pool,           \* connections in SnowflakeConnectionPool.pool, none of them closed
    active_connections,
    caller,         \* where each thread is in get_connection
    attempts,       \* attempt of each thread's get_connection call
    waits,          \* seconds each call has slept between attempts
    validated,      \* the connection a thread holds passed SELECT 1
    sync_state,     \* rows of the time_entry_sync_state table, in insertion order
    chunk,          \* locals of each chunked-sync invocation
    freshness_results,\* status of each monitored table in this monitor run, <<>> between runs
    latest_dates,   \* MAX(REPORTING_DATE) of each table as this run's query met it and its distance from CURRENT_DATE()
    processed,      \* tables the monitor's loop has handled
    triggered,      \* trigger_fallback_function called for the table, and its result
    alerts,         \* severity of the alert sent for the table
    bq_schema,      \* the last schema derived: by which mapper, from which column types
    row_dicts,      \* the last row normalized: by which normalizer, and the dict it gave
    secret_store,   \* version of each secret in Secret Manager
    access_secret_cache,\* what lru_cache holds for _access_secret(secret_id), 0 for nothing
    credentials_cache,\* CredentialsManager._credentials_cache, <<>> for {}
    cache_expired,  \* time.time() - _cache_timestamp >= _cache_ttl
    credentials_call,\* the last get_snowflake_credentials call: what it found, what it read from the store, what it returned
    today,          \* datetime.date.today() as a day number; day 0 is a Monday
    ranges,         \* date ranges the progressive sync has chosen this week
    sf_details,     \* rows <<WORK_ITEM_ID, REPORTING_DATE>> of WORK_ITEM_DETAILS in Snowflake
    bq_details,     \* rows of WORK_ITEM_DETAILS_BQ
    bq_others,      \* work items with rows in the other BigQuery tables
    dedup_run,      \* the deduplication sync that has run: its request, its mode, its orphans, the tables its DELETE ran on, the tables as it found them
    time_entries,   \* rows of USER_TIME_ENTRY_BQ: [key, row_uuid, bq_ingestion_timestamp], 0 for NULL
    current_timestamp,\* CURRENT_TIMESTAMP() of the next statement
    uuids,          \* values GENERATE_UUID() has given
    entry_sync      \* the daily time entry sync under way: its step, the table as its cleanup found it

vars == <<pipeline, pc, run, source, changes, targetExists, target, stagingExists, staging,
          tempDefined, offset, total_rows, rows, attempt, outcome, failure, cleanupFailed,
          stagingCreated, stagingExpires, reported, lastOutcome, next_offset, tracker,
          keys, timedOut, deleted, targetBefore, stmts, batches, dry_run, pool,
          active_connections, caller, attempts, waits, validated, sync_state, chunk,
          freshness_results, latest_dates, processed, triggered, alerts, bq_schema,
          row_dicts, secret_store, access_secret_cache, credentials_cache, cache_expired,
          credentials_call, today, ranges, sf_details, bq_details, bq_others, dedup_run,
          time_entries, current_timestamp, uuids, entry_sync>>

\* What no step of a sync invocation changes.
otherVars == <<pipeline, pool, active_connections, caller, attempts, waits, validated,
               sync_state, chunk, freshness_results, latest_dates, processed, triggered,
               alerts, bq_schema, row_dicts, secret_store, access_secret_cache,
               credentials_cache, cache_expired, credentials_call, today, ranges,
               sf_details, bq_details, bq_others, dedup_run, time_entries,
               current_timestamp, uuids, entry_sync>>

\* The state of a sync invocation and of its tables.
syncVars == <<pc, run, source, changes, targetExists, target, stagingExists, staging,
              tempDefined, offset, total_rows, rows, attempt, outcome, failure,
              cleanupFailed, stagingCreated, stagingExpires, reported, lastOutcome,
              next_offset, tracker, keys, timedOut, deleted, targetBefore, stmts, batches,
              dry_run>>

\* The state of the components beside the pipelines and the connection pool.
compVars == <<sync_state, chunk, freshness_results, latest_dates, processed, triggered,
              alerts, bq_schema, row_dicts, secret_store, access_secret_cache,
              credentials_cache, cache_expired, credentials_call, today, ranges,
              sf_details, bq_details, bq_others, dedup_run, time_entries,
              current_timestamp, uuids, entry_sync>>

\* What the steps of one component leave alone.
chunkFrame == <<pipeline, syncVars, pool, active_connections, caller, attempts, waits,
                validated, freshness_results, latest_dates, processed, triggered, alerts,
                bq_schema, row_dicts, secret_store, access_secret_cache, credentials_cache,
                cache_expired, credentials_call, today, ranges, sf_details, bq_details,
                bq_others, dedup_run, time_entries, current_timestamp, uuids, entry_sync>>
monitorFrame == <<pipeline, syncVars, pool, active_connections, caller, attempts, waits,
                  validated, sync_state, chunk, bq_schema, row_dicts, secret_store,
                  access_secret_cache, credentials_cache, cache_expired, credentials_call,
                  today, ranges, sf_details, bq_details, bq_others, dedup_run,
                  time_entries, current_timestamp, uuids, entry_sync>>
convertFrame == <<pipeline, syncVars, pool, active_connections, caller, attempts, waits,
                  validated, sync_state, chunk, freshness_results, latest_dates, processed,
                  triggered, alerts, secret_store, access_secret_cache, credentials_cache,
                  cache_expired, credentials_call, today, ranges, sf_details, bq_details,
                  bq_others, dedup_run, time_entries, current_timestamp, uuids, entry_sync>>
credsFrame == <<pipeline, syncVars, pool, active_connections, caller, attempts, waits,
                validated, sync_state, chunk, freshness_results, latest_dates, processed,
                triggered, alerts, bq_schema, row_dicts, today, ranges, sf_details,
                bq_details, bq_others, dedup_run, time_entries, current_timestamp, uuids,
                entry_sync>>
progressiveFrame == <<pipeline, syncVars, pool, active_connections, caller, attempts,
                      waits, validated, sync_state, chunk, freshness_results, latest_dates,
                      processed, triggered, alerts, bq_schema, row_dicts, secret_store,
                      access_secret_cache, credentials_cache, cache_expired,
                      credentials_call, sf_details, bq_details, bq_others, dedup_run,
                      time_entries, current_timestamp, uuids, entry_sync>>
dedupFrame == <<pipeline, syncVars, pool, active_connections, caller, attempts, waits,
                validated, sync_state, chunk, freshness_results, latest_dates, processed,
                triggered, alerts, bq_schema, row_dicts, secret_store, access_secret_cache,
                credentials_cache, cache_expired, credentials_call, today, ranges,
                time_entries, current_timestamp, uuids, entry_sync>>
entriesFrame == <<pipeline, syncVars, pool, active_connections, caller, attempts, waits,
                  validated, sync_state, chunk, freshness_results, latest_dates, processed,
                  triggered, alerts, bq_schema, row_dicts, secret_store,
                  access_secret_cache, credentials_cache, cache_expired, credentials_call,
                  today, ranges, sf_details, bq_details, bq_others, dedup_run>>

Init ==
    /\ pipeline \in Pipelines
    /\ pc = "idle"
    /\ run = 0
    /\ source \in InitSources(pipeline)
    /\ changes = 0
    /\ targetExists \in (IF pipeline \in {BudgetProgressive, TimeDaily} THEN BOOLEAN ELSE {FALSE})
    /\ target = EmptyTable(pipeline)
    /\ stagingExists = FALSE
    /\ staging = EmptyTable(pipeline)
    /\ tempDefined = FALSE
    /\ offset = 0
    /\ total_rows = 0
    /\ rows = <<>>
    /\ attempt = 0
    /\ outcome = "none"
    /\ failure = "none"
    /\ cleanupFailed = FALSE
    /\ stagingCreated = FALSE
    /\ stagingExpires = FALSE
    /\ reported = "none"
    /\ lastOutcome = "none"
    /\ next_offset = 0
    /\ tracker = 0
    /\ keys = {}
    /\ timedOut = FALSE
    /\ deleted = {}
    /\ targetBefore = EmptyTable(pipeline)
    /\ stmts = <<>>
    /\ batches = <<>>
    /\ dry_run = FALSE
    /\ pool = 0
    /\ active_connections = 0
    /\ caller = [t \in Workers |-> "idle"]
    /\ attempts = [t \in Workers |-> 0]
    /\ waits = [t \in Workers |-> <<>>]
    /\ validated = [t \in Workers |-> FALSE]
    /\ sync_state = <<>>
    /\ chunk = [t \in Callers |-> [pc |-> "idle", start_date |-> 0, end_date |-> 0, sync_id |-> 0]]
    /\ freshness_results = <<>>
    /\ latest_dates = [t \in Tables |-> [latest_date |-> "NULL", days_behind |-> 0]]
    /\ processed = 0
    /\ triggered = [t \in Tables |-> "no"]
    /\ alerts = [t \in Tables |-> "none"]
    /\ bq_schema = [mapper |-> "none", columns |-> <<>>, fields |-> <<>>]
    /\ row_dicts = [normalizer |-> "none", columns |-> <<>>, row |-> <<>>, row_dict |-> <<>>]
    /\ secret_store = [i \in DOMAIN SecretIds |-> 1]
    /\ access_secret_cache = [i \in DOMAIN SecretIds |-> 0]
    /\ credentials_cache = <<>>
    /\ cache_expired = TRUE
    /\ credentials_call = [made |-> FALSE, force_refresh |-> FALSE, valid |-> FALSE, cached |-> <<>>, store |-> <<>>, reads |-> {}, raised |-> FALSE, result |-> <<>>]
    /\ today = 0
    /\ ranges = {}
    /\ sf_details = {}
    /\ bq_details = {}
    /\ bq_others = [t \in OtherTables |-> {}]
    /\ dedup_run = [ran |-> FALSE, request |-> [body |-> "none", dry_run |-> "absent", work_item_id |-> FALSE], dry_run |-> TRUE, orphaned_items |-> {}, deleted_from |-> {}, details |-> {}, others |-> [t \in OtherTables |-> {}]]
    /\ time_entries = <<>>
    /\ current_timestamp = 1
    /\ uuids = 0
    /\ entry_sync = [pc |-> "idle", before |-> <<>>]

\* ---------------------------------------------------------------- environment
\* One row of the source table is inserted, deleted or updated.
SourceChange ==
    /\ pc = "idle"
    /\ run > 0
    /\ run < MaxRuns
    /\ changes < MaxChanges
    /\ changes' = changes + 1
    /\ \E S \in ChangedSources(pipeline, source) :
         /\ source' = S
    /\ UNCHANGED <<otherVars, pc, run, targetExists, target, stagingExists, staging,
                   tempDefined, offset, total_rows, rows, attempt, outcome, failure,
                   cleanupFailed, stagingCreated, stagingExpires, reported, lastOutcome,
                   next_offset, tracker, keys, timedOut, deleted, targetBefore, stmts,
                   batches, dry_run>>

\* The HTTP trigger starts an invocation.
Invoke ==
    /\ pc = "idle"
    /\ run < MaxRuns
    /\ run' = run + 1
    /\ pc' = "start"
    /\ targetBefore' = target
    /\ UNCHANGED <<otherVars, source, changes, targetExists, target, stagingExists,
                   staging, tempDefined, offset, total_rows, rows, attempt, outcome,
                   failure, cleanupFailed, stagingCreated, stagingExpires, reported,
                   lastOutcome, next_offset, tracker, keys, timedOut, deleted, stmts,
                   batches, dry_run>>

\* The caller has the response and the function's locals are gone; a temp table
\* that was not deleted stays behind, under a name no later invocation uses unless the
\* name is a fixed one (TENANT_TEAM_DIMENSION_temp).
Return ==
    /\ pc = "done"
    /\ pc' = "idle"
    /\ changes' = 0
    /\ lastOutcome' = outcome
    /\ stagingExists' = (pipeline = TenantTeam /\ stagingExists)
    /\ staging' = IF pipeline = TenantTeam /\ stagingExists THEN staging ELSE EmptyTable(pipeline)
    /\ stagingExpires' = FALSE
    /\ reported' = "none"
    /\ tempDefined' = FALSE
    /\ offset' = 0
    /\ total_rows' = 0
    /\ rows' = <<>>
    /\ attempt' = 0
    /\ outcome' = "none"
    /\ failure' = "none"
    /\ cleanupFailed' = FALSE
    /\ stagingCreated' = FALSE
    /\ stmts' = <<>>
    /\ batches' = <<>>
    /\ keys' = {}
    /\ timedOut' = FALSE
    /\ deleted' = {}
    /\ dry_run' = FALSE
    /\ UNCHANGED <<otherVars, run, source, targetExists, target, next_offset, tracker,
                   targetBefore>>

\* ---------------------------------------------------------------- unified pipeline
\* PipelineBase.run_full_sync, called by pipeline_handler.

\* ensure_target_table_exists: get_table, or create the table from the source schema.
UF_EnsureTarget ==
    /\ pipeline = UnifiedFull
    /\ pc = "start"
    /\ \/ /\ targetExists' = TRUE
          /\ pc' = "create_temp"
          /\ UNCHANGED failure
       \/ /\ failure' = "setup"
          /\ pc' = "except"
          /\ UNCHANGED targetExists
    /\ UNCHANGED <<otherVars, run, source, changes, target, stagingExists, staging,
                   tempDefined, offset, total_rows, rows, attempt, outcome, cleanupFailed,
                   stagingCreated, stagingExpires, reported, lastOutcome, next_offset,
                   tracker, keys, timedOut, deleted, targetBefore, stmts, batches, dry_run>>

\* temp_table_id is bound, then create_table(temp_table) with an expiry.
UF_CreateTemp ==
    /\ pipeline = UnifiedFull
    /\ pc = "create_temp"
    /\ tempDefined' = TRUE
    /\ \/ /\ stagingExists' = TRUE
          /\ stagingCreated' = TRUE
          /\ stagingExpires' = TRUE
          /\ pc' = "fetch"
          /\ UNCHANGED failure
       \/ /\ failure' = "setup"
          /\ pc' = "except"
          /\ UNCHANGED <<stagingExists, stagingCreated, stagingExpires>>
    /\ UNCHANGED <<otherVars, run, source, changes, targetExists, target, staging, offset,
                   total_rows, rows, attempt, outcome, cleanupFailed, reported,
                   lastOutcome, next_offset, tracker, keys, timedOut, deleted,
                   targetBefore, stmts, batches, dry_run>>

\* fetch_batch(offset, batch_size) with _build_full_query; an empty batch ends the loop.
UF_FetchBatch ==
    /\ pipeline = UnifiedFull
    /\ pc = "fetch"
    /\ \/ \E s \in QueryOrders(pipeline, source) :
            /\ rows' = Page(s, offset, BatchSize)
            /\ pc' = IF rows' = <<>> THEN "replace" ELSE "load"
            /\ batches' = IF rows' = <<>> THEN batches ELSE Append(batches, rows')
            /\ UNCHANGED failure
       \/ /\ failure' = "extract"
          /\ pc' = "except"
          /\ UNCHANGED <<rows, batches>>
    /\ UNCHANGED <<otherVars, run, source, changes, targetExists, target, stagingExists,
                   staging, tempDefined, offset, total_rows, attempt, outcome,
                   cleanupFailed, stagingCreated, stagingExpires, reported, lastOutcome,
                   next_offset, tracker, keys, timedOut, deleted, targetBefore, stmts,
                   dry_run>>

\* load_batch_to_bigquery into the temp table, then offset += len(rows).
UF_LoadBatch ==
    /\ pipeline = UnifiedFull
    /\ pc = "load"
    /\ \/ /\ staging' = AppendRows(staging, rows)
          /\ total_rows' = total_rows + Len(rows)
          /\ offset' = offset + Len(rows)
          /\ pc' = "fetch"
          /\ UNCHANGED failure
       \/ /\ failure' = "load"
          /\ pc' = "except"
          /\ UNCHANGED <<staging, offset, total_rows>>
    /\ UNCHANGED <<otherVars, run, source, changes, targetExists, target, stagingExists,
                   tempDefined, rows, attempt, outcome, cleanupFailed, stagingCreated,
                   stagingExpires, reported, lastOutcome, next_offset, tracker, keys,
                   timedOut, deleted, targetBefore, stmts, batches, dry_run>>

\* if total_rows > 0: _replace_table (CREATE OR REPLACE TABLE target AS SELECT * FROM temp).
UF_Replace ==
    /\ pipeline = UnifiedFull
    /\ pc = "replace"
    /\ \/ /\ total_rows = 0
          /\ pc' = "cleanup"
          /\ UNCHANGED <<target, failure, stmts>>
       \/ /\ total_rows > 0
          /\ target' = staging
          /\ stmts' = Append(stmts, "REPLACE")
          /\ pc' = "cleanup"
          /\ UNCHANGED failure
       \/ /\ total_rows > 0
          /\ failure' = "reconcile"
          /\ pc' = "except"
          /\ UNCHANGED <<target, stmts>>
    /\ UNCHANGED <<otherVars, run, source, changes, targetExists, stagingExists, staging,
                   tempDefined, offset, total_rows, rows, attempt, outcome, cleanupFailed,
                   stagingCreated, stagingExpires, reported, lastOutcome, next_offset,
                   tracker, keys, timedOut, deleted, targetBefore, batches, dry_run>>

\* delete_table(temp_table_id, not_found_ok=True) on the success path.
UF_Cleanup ==
    /\ pipeline = UnifiedFull
    /\ pc = "cleanup"
    /\ \/ /\ stagingExists' = FALSE
          /\ pc' = "validate"
          /\ UNCHANGED <<failure, cleanupFailed>>
       \/ /\ cleanupFailed' = TRUE
          /\ failure' = "cleanup"
          /\ pc' = "except"
          /\ UNCHANGED stagingExists
    /\ UNCHANGED <<otherVars, run, source, changes, targetExists, target, staging,
                   tempDefined, offset, total_rows, rows, attempt, outcome, stagingCreated,
                   stagingExpires, reported, lastOutcome, next_offset, tracker, keys,
                   timedOut, deleted, targetBefore, stmts, batches, dry_run>>

\* validate_sync catches its own errors; the result goes back through pipeline_handler.
UF_Return ==
    /\ pipeline = UnifiedFull
    /\ pc = "validate"
    /\ outcome' = "success"
    /\ pc' = "done"
    /\ UNCHANGED <<otherVars, run, source, changes, targetExists, target, stagingExists,
                   staging, tempDefined, offset, total_rows, rows, attempt, failure,
                   cleanupFailed, stagingCreated, stagingExpires, reported, lastOutcome,
                   next_offset, tracker, keys, timedOut, deleted, targetBefore, stmts,
                   batches, dry_run>>

\* except: delete the temp table if temp_table_id is bound, then re-raise; an error of
\* the delete_table call leaves the except block in place of the one being handled.
UF_Except ==
    /\ pipeline = UnifiedFull
    /\ pc = "except"
    /\ pc' = "raised"
    /\ \/ /\ ~tempDefined
          /\ reported' = failure
          /\ UNCHANGED <<stagingExists, cleanupFailed>>
       \/ /\ tempDefined
          /\ stagingExists' = FALSE
          /\ reported' = failure
          /\ UNCHANGED cleanupFailed
       \/ /\ tempDefined
          /\ cleanupFailed' = TRUE
          /\ reported' = "cleanup"
          /\ UNCHANGED stagingExists
    /\ UNCHANGED <<otherVars, run, source, changes, targetExists, target, staging,
                   tempDefined, offset, total_rows, rows, attempt, outcome, failure,
                   stagingCreated, stagingExpires, lastOutcome, next_offset, tracker, keys,
                   timedOut, deleted, targetBefore, stmts, batches, dry_run>>

\* PipelineBase.run_incremental_sync, called by pipeline_handler.

\* ensure_target_table_exists.
UI_EnsureTarget ==
    /\ pipeline = UnifiedIncr
    /\ pc = "start"
    /\ \/ /\ targetExists' = TRUE
          /\ pc' = "fetch"
          /\ UNCHANGED failure
       \/ /\ failure' = "setup"
          /\ pc' = "except"
          /\ UNCHANGED targetExists
    /\ UNCHANGED <<otherVars, run, source, changes, target, stagingExists, staging,
                   tempDefined, offset, total_rows, rows, attempt, outcome, cleanupFailed,
                   stagingCreated, stagingExpires, reported, lastOutcome, next_offset,
                   tracker, keys, timedOut, deleted, targetBefore, stmts, batches, dry_run>>

\* fetch_batch(offset, batch_size) with _build_incremental_query.
UI_FetchBatch ==
    /\ pipeline = UnifiedIncr
    /\ pc = "fetch"
    /\ \/ \E s \in QueryOrders(pipeline, Selected(pipeline, source)) :
            /\ rows' = Page(s, offset, BatchSize)
            /\ pc' = IF rows' = <<>> THEN "dedup" ELSE "merge"
            /\ batches' = IF rows' = <<>> THEN batches ELSE Append(batches, rows')
            /\ UNCHANGED failure
       \/ /\ failure' = "extract"
          /\ pc' = "except"
          /\ UNCHANGED <<rows, batches>>
    /\ UNCHANGED <<otherVars, run, source, changes, targetExists, target, stagingExists,
                   staging, tempDefined, offset, total_rows, attempt, outcome,
                   cleanupFailed, stagingCreated, stagingExpires, reported, lastOutcome,
                   next_offset, tracker, keys, timedOut, deleted, targetBefore, stmts,
                   dry_run>>

\* _merge_batch(bq_rows, columns) for the batch just fetched, then offset += len(rows):
\* load the batch into temp_merge_<uuid> (a table the code never creates itself),
\* MERGE it into the target, delete the temp table.
UI_MergeBatch ==
    /\ pipeline = UnifiedIncr
    /\ pc = "merge"
    /\ tempDefined' = TRUE
    /\ \/ /\ failure' = "load"
          /\ pc' = "except"
          /\ UNCHANGED <<target, stagingExists, staging, offset, total_rows, cleanupFailed,
                         stagingCreated, stmts>>
       \/ /\ staging' = AppendRows(EmptyTable(pipeline), rows)
          /\ stagingExists' = TRUE
          /\ stagingCreated' = TRUE
          /\ failure' = "reconcile"
          /\ pc' = "except"
          /\ UNCHANGED <<target, offset, total_rows, cleanupFailed, stmts>>
       \/ /\ ~MergeFails(pipeline, target, AppendRows(EmptyTable(pipeline), rows))
          /\ target' = MergeResult(pipeline, target, AppendRows(EmptyTable(pipeline), rows))
          /\ stmts' = Append(stmts, "MERGE")
          /\ staging' = AppendRows(EmptyTable(pipeline), rows)
          /\ stagingCreated' = TRUE
          /\ stagingExists' = FALSE
          /\ total_rows' = total_rows + Len(rows)
          /\ offset' = offset + Len(rows)
          /\ pc' = "fetch"
          /\ UNCHANGED <<failure, cleanupFailed>>
       \/ /\ ~MergeFails(pipeline, target, AppendRows(EmptyTable(pipeline), rows))
          /\ target' = MergeResult(pipeline, target, AppendRows(EmptyTable(pipeline), rows))
          /\ stmts' = Append(stmts, "MERGE")
          /\ staging' = AppendRows(EmptyTable(pipeline), rows)
          /\ stagingCreated' = TRUE
          /\ stagingExists' = TRUE
          /\ cleanupFailed' = TRUE
          /\ failure' = "cleanup"
          /\ pc' = "except"
          /\ UNCHANGED <<offset, total_rows>>
    /\ UNCHANGED <<otherVars, run, source, changes, targetExists, rows, attempt, outcome,
                   stagingExpires, reported, lastOutcome, next_offset, tracker, keys,
                   timedOut, deleted, targetBefore, batches, dry_run>>

\* enable_deduplication (default True): _deduplicate_table rewrites the target.
UI_Deduplicate ==
    /\ pipeline = UnifiedIncr
    /\ pc = "dedup"
    /\ \/ \E T \in DedupResults(pipeline, target) :
            /\ target' = T
            /\ stmts' = Append(stmts, "DEDUP")
            /\ pc' = "validate"
            /\ UNCHANGED failure
       \/ /\ failure' = "reconcile"
          /\ pc' = "except"
          /\ UNCHANGED <<target, stmts>>
    /\ UNCHANGED <<otherVars, run, source, changes, targetExists, stagingExists, staging,
                   tempDefined, offset, total_rows, rows, attempt, outcome, cleanupFailed,
                   stagingCreated, stagingExpires, reported, lastOutcome, next_offset,
                   tracker, keys, timedOut, deleted, targetBefore, batches, dry_run>>

\* validate_sync, then the result goes back through pipeline_handler.
UI_Return ==
    /\ pipeline = UnifiedIncr
    /\ pc = "validate"
    /\ outcome' = "success"
    /\ pc' = "done"
    /\ UNCHANGED <<otherVars, run, source, changes, targetExists, target, stagingExists,
                   staging, tempDefined, offset, total_rows, rows, attempt, failure,
                   cleanupFailed, stagingCreated, stagingExpires, reported, lastOutcome,
                   next_offset, tracker, keys, timedOut, deleted, targetBefore, stmts,
                   batches, dry_run>>

\* except: record the error metric and re-raise; no table is deleted here.
UI_Except ==
    /\ pipeline = UnifiedIncr
    /\ pc = "except"
    /\ reported' = failure
    /\ pc' = "raised"
    /\ UNCHANGED <<otherVars, run, source, changes, targetExists, target, stagingExists,
                   staging, tempDefined, offset, total_rows, rows, attempt, outcome,
                   failure, cleanupFailed, stagingCreated, stagingExpires, lastOutcome,
                   next_offset, tracker, keys, timedOut, deleted, targetBefore, stmts,
                   batches, dry_run>>

\* pipeline_handler: except Exception -> alert, {"status": "error", ...}, 500.
PH_Except ==
    /\ pipeline \in {UnifiedFull, UnifiedIncr}
    /\ pc = "raised"
    /\ outcome' = "error"
    /\ pc' = "done"
    /\ UNCHANGED <<otherVars, run, source, changes, targetExists, target, stagingExists,
                   staging, tempDefined, offset, total_rows, rows, attempt, failure,
                   cleanupFailed, stagingCreated, stagingExpires, reported, lastOutcome,
                   next_offset, tracker, keys, timedOut, deleted, targetBefore, stmts,
                   batches, dry_run>>

\* pipeline_handler going on into the extraction loop of pipeline.run() with dry_run set.
PH_DryRunSyncs ==
    /\ pipeline \in {UnifiedFull, UnifiedIncr}
    /\ pc = "start"
    /\ dry_run' = TRUE
    /\ pc' = "fetch"
    /\ UNCHANGED <<otherVars, run, source, changes, targetExists, target, stagingExists,
                   staging, tempDefined, offset, total_rows, rows, attempt, outcome,
                   failure, cleanupFailed, stagingCreated, stagingExpires, reported,
                   lastOutcome, next_offset, tracker, keys, timedOut, deleted,
                   targetBefore, stmts, batches>>

\* pipeline_handler with a request whose dry_run is true: UnifiedPipeline(pipeline_name),
\* whose bigquery.Client() may raise, then pipeline.validate_sync() in place of
\* pipeline.run().
PH_DryRun ==
    /\ pipeline \in {UnifiedFull, UnifiedIncr}
    /\ pc = "start"
    /\ dry_run' = TRUE
    /\ \/ /\ pc' = "validate"
          /\ UNCHANGED <<failure, reported>>
       \/ /\ failure' = "setup"
          /\ reported' = "setup"
          /\ pc' = "raised"
    /\ UNCHANGED <<otherVars, run, source, changes, targetExists, target, stagingExists,
                   staging, tempDefined, offset, total_rows, rows, attempt, outcome,
                   cleanupFailed, stagingCreated, stagingExpires, lastOutcome, next_offset,
                   tracker, keys, timedOut, deleted, targetBefore, stmts, batches>>

\* ---------------------------------------------------------------- work item details
\* sync_daily_incremental of work_item_details_sync_daily/main.py.

\* temp_table_id is bound; get_table(target) or, on NotFound, create the target from the
\* Snowflake schema; create_table(temp_table) with an expiry.
DD_Prepare ==
    /\ pipeline = DetailsDaily
    /\ pc = "start"
    /\ tempDefined' = TRUE
    /\ \/ /\ failure' = "setup"
          /\ pc' = "except"
          /\ UNCHANGED <<targetExists, stagingExists, stagingCreated, stagingExpires>>
       \/ /\ targetExists' = TRUE
          /\ failure' = "setup"
          /\ pc' = "except"
          /\ UNCHANGED <<stagingExists, stagingCreated, stagingExpires>>
       \/ /\ targetExists' = TRUE
          /\ stagingExists' = TRUE
          /\ stagingCreated' = TRUE
          /\ stagingExpires' = TRUE
          /\ pc' = "fetch"
          /\ UNCHANGED failure
    /\ UNCHANGED <<otherVars, run, source, changes, target, staging, offset, total_rows,
                   rows, attempt, outcome, cleanupFailed, reported, lastOutcome,
                   next_offset, tracker, keys, timedOut, deleted, targetBefore, stmts,
                   batches, dry_run>>

\* execute_snowflake_query under retry_on_timeout: SELECT ... WHERE REPORTING_DATE BETWEEN
\* start AND end ORDER BY WORK_ITEM_ID, REPORTING_DATE LIMIT batch_size OFFSET offset.
DD_Fetch ==
    /\ pipeline = DetailsDaily
    /\ pc = "fetch"
    /\ \/ \E s \in QueryOrders(pipeline, Selected(pipeline, source)) :
            /\ rows' = Page(s, offset, BatchSize)
            /\ total_rows' = total_rows + Len(rows')
            /\ attempt' = 0
            /\ pc' = IF rows' = <<>> THEN "merge" ELSE "load"
            /\ batches' = IF rows' = <<>> THEN batches ELSE Append(batches, rows')
            /\ UNCHANGED failure
       \/ /\ attempt < MaxRetries - 1
          /\ attempt' = attempt + 1
          /\ UNCHANGED <<pc, total_rows, rows, failure, batches>>
       \/ /\ attempt = MaxRetries - 1
          /\ attempt' = 0
          /\ failure' = "extract"
          /\ pc' = "except"
          /\ UNCHANGED <<total_rows, rows, batches>>
    /\ UNCHANGED <<otherVars, run, source, changes, targetExists, target, stagingExists,
                   staging, tempDefined, offset, outcome, cleanupFailed, stagingCreated,
                   stagingExpires, reported, lastOutcome, next_offset, tracker, keys,
                   timedOut, deleted, targetBefore, stmts, dry_run>>

\* load_to_bigquery under retry_on_timeout: insert_rows_json(temp_table_id, batch).  A
\* returned error list raises RuntimeError; a raised error (a timeout, which may come after
\* the rows were written) is retried; then offset += batch_size.
DD_Load ==
    /\ pipeline = DetailsDaily
    /\ pc = "load"
    /\ \/ /\ staging' = AppendRows(staging, rows)
          /\ offset' = offset + BatchSize
          /\ attempt' = 0
          /\ pc' = "fetch"
          /\ UNCHANGED failure
       \/ /\ attempt' = 0
          /\ failure' = "load"
          /\ pc' = "except"
          /\ UNCHANGED <<staging, offset>>
       \/ /\ attempt < MaxRetries - 1
          /\ attempt' = attempt + 1
          /\ UNCHANGED <<pc, staging, offset, failure>>
       \/ /\ attempt < MaxRetries - 1
          /\ attempt' = attempt + 1
          /\ staging' = AppendRows(staging, rows)
          /\ UNCHANGED <<pc, offset, failure>>
       \/ /\ attempt = MaxRetries - 1
          /\ attempt' = 0
          /\ failure' = "load"
          /\ pc' = "except"
          /\ UNCHANGED <<staging, offset>>
    /\ UNCHANGED <<otherVars, run, source, changes, targetExists, target, stagingExists,
                   tempDefined, total_rows, rows, outcome, cleanupFailed, stagingCreated,
                   stagingExpires, reported, lastOutcome, next_offset, tracker, keys,
                   timedOut, deleted, targetBefore, stmts, batches, dry_run>>

\* No row fetched: delete the temp table and return 200.  Otherwise one MERGE of the
\* temp table into the target ON WORK_ITEM_ID, REPORTING_DATE.
DD_Merge ==
    /\ pipeline = DetailsDaily
    /\ pc = "merge"
    /\ \/ /\ total_rows = 0
          /\ stagingExists' = FALSE
          /\ outcome' = "success"
          /\ pc' = "done"
          /\ UNCHANGED <<target, failure, cleanupFailed, stmts>>
       \/ /\ total_rows = 0
          /\ cleanupFailed' = TRUE
          /\ failure' = "cleanup"
          /\ pc' = "except"
          /\ UNCHANGED <<target, stagingExists, outcome, stmts>>
       \/ /\ total_rows > 0
          /\ ~MergeFails(pipeline, target, staging)
          /\ target' = MergeResult(pipeline, target, staging)
          /\ stmts' = Append(stmts, "MERGE")
          /\ pc' = "cleanup"
          /\ UNCHANGED <<stagingExists, outcome, failure, cleanupFailed>>
       \/ /\ total_rows > 0
          /\ failure' = "reconcile"
          /\ pc' = "except"
          /\ UNCHANGED <<target, stagingExists, outcome, cleanupFailed, stmts>>
    /\ UNCHANGED <<otherVars, run, source, changes, targetExists, staging, tempDefined,
                   offset, total_rows, rows, attempt, stagingCreated, stagingExpires,
                   reported, lastOutcome, next_offset, tracker, keys, timedOut, deleted,
                   targetBefore, batches, dry_run>>

\* delete_table(temp_table_id, not_found_ok=True) after the MERGE, then return 200.
DD_Cleanup ==
    /\ pipeline = DetailsDaily
    /\ pc = "cleanup"
    /\ \/ /\ stagingExists' = FALSE
          /\ outcome' = "success"
          /\ pc' = "done"
          /\ UNCHANGED <<failure, cleanupFailed>>
       \/ /\ cleanupFailed' = TRUE
          /\ failure' = "cleanup"
          /\ pc' = "except"
          /\ UNCHANGED <<stagingExists, outcome>>
    /\ UNCHANGED <<otherVars, run, source, changes, targetExists, target, staging,
                   tempDefined, offset, total_rows, rows, attempt, stagingCreated,
                   stagingExpires, reported, lastOutcome, next_offset, tracker, keys,
                   timedOut, deleted, targetBefore, stmts, batches, dry_run>>

\* except Exception: return f"Error: {e}", 500; the temp table is not touched.
DD_Except ==
    /\ pipeline = DetailsDaily
    /\ pc = "except"
    /\ outcome' = "error"
    /\ reported' = failure
    /\ pc' = "done"
    /\ UNCHANGED <<otherVars, run, source, changes, targetExists, target, stagingExists,
                   staging, tempDefined, offset, total_rows, rows, attempt, failure,
                   cleanupFailed, stagingCreated, stagingExpires, lastOutcome, next_offset,
                   tracker, keys, timedOut, deleted, targetBefore, stmts, batches, dry_run>>

\* sync_full_work_item_details of work_item_details_sync_full/main.py.

\* temp_table_id is bound; the target is found or created; the temp table is created.
DF_Prepare ==
    /\ pipeline = DetailsFull
    /\ pc = "start"
    /\ tempDefined' = TRUE
    /\ \/ /\ failure' = "setup"
          /\ pc' = "except"
          /\ UNCHANGED <<targetExists, stagingExists, stagingCreated, stagingExpires>>
       \/ /\ targetExists' = TRUE
          /\ failure' = "setup"
          /\ pc' = "except"
          /\ UNCHANGED <<stagingExists, stagingCreated, stagingExpires>>
       \/ /\ targetExists' = TRUE
          /\ stagingExists' = TRUE
          /\ stagingCreated' = TRUE
          /\ stagingExpires' = TRUE
          /\ pc' = "fetch"
          /\ UNCHANGED failure
    /\ UNCHANGED <<otherVars, run, source, changes, target, staging, offset, total_rows,
                   rows, attempt, outcome, cleanupFailed, reported, lastOutcome,
                   next_offset, tracker, keys, timedOut, deleted, targetBefore, stmts,
                   batches, dry_run>>

\* SELECT * ... ORDER BY WORK_ITEM_ID, REPORTING_DATE LIMIT batch_size OFFSET offset.
DF_Fetch ==
    /\ pipeline = DetailsFull
    /\ pc = "fetch"
    /\ \/ \E s \in QueryOrders(pipeline, source) :
            /\ rows' = Page(s, offset, BatchSize)
            /\ total_rows' = total_rows + Len(rows')
            /\ pc' = IF rows' = <<>> THEN "merge" ELSE "load"
            /\ batches' = IF rows' = <<>> THEN batches ELSE Append(batches, rows')
            /\ UNCHANGED failure
       \/ /\ failure' = "extract"
          /\ pc' = "except"
          /\ UNCHANGED <<total_rows, rows, batches>>
    /\ UNCHANGED <<otherVars, run, source, changes, targetExists, target, stagingExists,
                   staging, tempDefined, offset, attempt, outcome, cleanupFailed,
                   stagingCreated, stagingExpires, reported, lastOutcome, next_offset,
                   tracker, keys, timedOut, deleted, targetBefore, stmts, dry_run>>

\* insert_rows_json(temp_table_id, batch), then offset += rows_in_batch.
DF_Load ==
    /\ pipeline = DetailsFull
    /\ pc = "load"
    /\ \/ /\ staging' = AppendRows(staging, rows)
          /\ offset' = offset + Len(rows)
          /\ pc' = "fetch"
          /\ UNCHANGED failure
       \/ /\ failure' = "load"
          /\ pc' = "except"
          /\ UNCHANGED <<staging, offset>>
    /\ UNCHANGED <<otherVars, run, source, changes, targetExists, target, stagingExists,
                   tempDefined, total_rows, rows, attempt, outcome, cleanupFailed,
                   stagingCreated, stagingExpires, reported, lastOutcome, next_offset,
                   tracker, keys, timedOut, deleted, targetBefore, stmts, batches, dry_run>>

\* No row fetched: delete the temp table and return 200.  Otherwise one MERGE.
DF_Merge ==
    /\ pipeline = DetailsFull
    /\ pc = "merge"
    /\ \/ /\ total_rows = 0
          /\ stagingExists' = FALSE
          /\ outcome' = "success"
          /\ pc' = "done"
          /\ UNCHANGED <<target, failure, cleanupFailed, stmts>>
       \/ /\ total_rows = 0
          /\ cleanupFailed' = TRUE
          /\ failure' = "cleanup"
          /\ pc' = "except"
          /\ UNCHANGED <<target, stagingExists, outcome, stmts>>
       \/ /\ total_rows > 0
          /\ ~MergeFails(pipeline, target, staging)
          /\ target' = MergeResult(pipeline, target, staging)
          /\ stmts' = Append(stmts, "MERGE")
          /\ pc' = "cleanup"
          /\ UNCHANGED <<stagingExists, outcome, failure, cleanupFailed>>
       \/ /\ total_rows > 0
          /\ failure' = "reconcile"
          /\ pc' = "except"
          /\ UNCHANGED <<target, stagingExists, outcome, cleanupFailed, stmts>>
    /\ UNCHANGED <<otherVars, run, source, changes, targetExists, staging, tempDefined,
                   offset, total_rows, rows, attempt, stagingCreated, stagingExpires,
                   reported, lastOutcome, next_offset, tracker, keys, timedOut, deleted,
                   targetBefore, batches, dry_run>>

\* delete_table(temp_table_id, not_found_ok=True) after the MERGE, then return 200.
DF_Cleanup ==
    /\ pipeline = DetailsFull
    /\ pc = "cleanup"
    /\ \/ /\ stagingExists' = FALSE
          /\ outcome' = "success"
          /\ pc' = "done"
          /\ UNCHANGED <<failure, cleanupFailed>>
       \/ /\ cleanupFailed' = TRUE
          /\ failure' = "cleanup"
          /\ pc' = "except"
          /\ UNCHANGED <<stagingExists, outcome>>
    /\ UNCHANGED <<otherVars, run, source, changes, targetExists, target, staging,
                   tempDefined, offset, total_rows, rows, attempt, stagingCreated,
                   stagingExpires, reported, lastOutcome, next_offset, tracker, keys,
                   timedOut, deleted, targetBefore, stmts, batches, dry_run>>

\* except Exception: try delete_table(temp_table_id, not_found_ok=True), a failure of
\* which is printed; return f"Error: {e}", 500.
DF_Except ==
    /\ pipeline = DetailsFull
    /\ pc = "except"
    /\ outcome' = "error"
    /\ reported' = failure
    /\ pc' = "done"
    /\ \/ /\ stagingExists' = FALSE
          /\ UNCHANGED cleanupFailed
       \/ /\ cleanupFailed' = TRUE
          /\ UNCHANGED stagingExists
    /\ UNCHANGED <<otherVars, run, source, changes, targetExists, target, staging,
                   tempDefined, offset, total_rows, rows, attempt, failure, stagingCreated,
                   stagingExpires, lastOutcome, next_offset, tracker, keys, timedOut,
                   deleted, targetBefore, stmts, batches, dry_run>>

\* ---------------------------------------------------------------- tenant team member dimension
\* sync_tenant_team_member_dimension_full of tenant_team_member_dimension_sync_daily/main.py.

\* get_snowflake_creds; temp_table_id is bound; the target is found or created from the
\* Snowflake schema; create_table(temp_table) with an expiry.
TM_Prepare ==
    /\ pipeline = TenantMember
    /\ pc = "start"
    /\ \/ /\ failure' = "setup"
          /\ pc' = "except"
          /\ UNCHANGED <<targetExists, stagingExists, tempDefined, stagingCreated,
                         stagingExpires>>
       \/ /\ tempDefined' = TRUE
          /\ failure' = "setup"
          /\ pc' = "except"
          /\ UNCHANGED <<targetExists, stagingExists, stagingCreated, stagingExpires>>
       \/ /\ tempDefined' = TRUE
          /\ targetExists' = TRUE
          /\ failure' = "setup"
          /\ pc' = "except"
          /\ UNCHANGED <<stagingExists, stagingCreated, stagingExpires>>
       \/ /\ tempDefined' = TRUE
          /\ targetExists' = TRUE
          /\ stagingExists' = TRUE
          /\ stagingCreated' = TRUE
          /\ stagingExpires' = TRUE
          /\ pc' = "fetch"
          /\ UNCHANGED failure
    /\ UNCHANGED <<otherVars, run, source, changes, target, staging, offset, total_rows,
                   rows, attempt, outcome, cleanupFailed, reported, lastOutcome,
                   next_offset, tracker, keys, timedOut, deleted, targetBefore, stmts,
                   batches, dry_run>>

\* SELECT * ... ORDER BY TENANT_TEAM_MEMBER_ID LIMIT batch_size OFFSET offset.
TM_Fetch ==
    /\ pipeline = TenantMember
    /\ pc = "fetch"
    /\ \/ \E s \in QueryOrders(pipeline, source) :
            /\ rows' = Page(s, offset, BatchSize)
            /\ total_rows' = total_rows + Len(rows')
            /\ pc' = IF rows' = <<>> THEN "truncate" ELSE "load"
            /\ batches' = IF rows' = <<>> THEN batches ELSE Append(batches, rows')
            /\ UNCHANGED failure
       \/ /\ failure' = "extract"
          /\ pc' = "except"
          /\ UNCHANGED <<total_rows, rows, batches>>
    /\ UNCHANGED <<otherVars, run, source, changes, targetExists, target, stagingExists,
                   staging, tempDefined, offset, attempt, outcome, cleanupFailed,
                   stagingCreated, stagingExpires, reported, lastOutcome, next_offset,
                   tracker, keys, timedOut, deleted, targetBefore, stmts, dry_run>>

\* A load whose returned errors are printed and not raised.
TM_LoadErrorsPrinted ==
    /\ pipeline = TenantMember
    /\ pc = "load"
    /\ \/ /\ staging' = AppendRows(staging, rows)
          /\ offset' = offset + BatchSize
          /\ pc' = "fetch"
          /\ UNCHANGED failure
       \/ /\ failure' = "load"
          /\ offset' = offset + BatchSize
          /\ pc' = "fetch"
          /\ UNCHANGED staging
    /\ UNCHANGED <<otherVars, run, source, changes, targetExists, target, stagingExists,
                   tempDefined, total_rows, rows, attempt, outcome, cleanupFailed,
                   stagingCreated, stagingExpires, reported, lastOutcome, next_offset,
                   tracker, keys, timedOut, deleted, targetBefore, stmts, batches, dry_run>>

\* insert_rows_json(temp_table_id, batch), then offset += batch_size.
TM_Load ==
    /\ pipeline = TenantMember
    /\ pc = "load"
    /\ \/ /\ staging' = AppendRows(staging, rows)
          /\ offset' = offset + BatchSize
          /\ pc' = "fetch"
          /\ UNCHANGED failure
       \/ /\ failure' = "load"
          /\ pc' = "except"
          /\ UNCHANGED <<staging, offset>>
    /\ UNCHANGED <<otherVars, run, source, changes, targetExists, target, stagingExists,
                   tempDefined, total_rows, rows, attempt, outcome, cleanupFailed,
                   stagingCreated, stagingExpires, reported, lastOutcome, next_offset,
                   tracker, keys, timedOut, deleted, targetBefore, stmts, batches, dry_run>>

\* No row fetched: delete the temp table and return 200.  Otherwise
\* TRUNCATE TABLE target.
TM_Truncate ==
    /\ pipeline = TenantMember
    /\ pc = "truncate"
    /\ \/ /\ total_rows = 0
          /\ stagingExists' = FALSE
          /\ outcome' = "success"
          /\ pc' = "done"
          /\ UNCHANGED <<target, failure, cleanupFailed, stmts>>
       \/ /\ total_rows = 0
          /\ cleanupFailed' = TRUE
          /\ failure' = "cleanup"
          /\ pc' = "except"
          /\ UNCHANGED <<target, stagingExists, outcome, stmts>>
       \/ /\ total_rows > 0
          /\ target' = EmptyTable(pipeline)
          /\ stmts' = Append(stmts, "TRUNCATE")
          /\ pc' = "insert"
          /\ UNCHANGED <<stagingExists, outcome, failure, cleanupFailed>>
       \/ /\ total_rows > 0
          /\ failure' = "reconcile"
          /\ pc' = "except"
          /\ UNCHANGED <<target, stagingExists, outcome, cleanupFailed, stmts>>
    /\ UNCHANGED <<otherVars, run, source, changes, targetExists, staging, tempDefined,
                   offset, total_rows, rows, attempt, stagingCreated, stagingExpires,
                   reported, lastOutcome, next_offset, tracker, keys, timedOut, deleted,
                   targetBefore, batches, dry_run>>

\* INSERT INTO target SELECT * FROM temp.
TM_Insert ==
    /\ pipeline = TenantMember
    /\ pc = "insert"
    /\ \/ /\ target' = InsertSelect(target, staging)
          /\ stmts' = Append(stmts, "INSERT")
          /\ pc' = "cleanup"
          /\ UNCHANGED failure
       \/ /\ failure' = "reconcile"
          /\ pc' = "except"
          /\ UNCHANGED <<target, stmts>>
    /\ UNCHANGED <<otherVars, run, source, changes, targetExists, stagingExists, staging,
                   tempDefined, offset, total_rows, rows, attempt, outcome, cleanupFailed,
                   stagingCreated, stagingExpires, reported, lastOutcome, next_offset,
                   tracker, keys, timedOut, deleted, targetBefore, batches, dry_run>>

\* delete_table(temp_table_id, not_found_ok=True), then return 200.
TM_Cleanup ==
    /\ pipeline = TenantMember
    /\ pc = "cleanup"
    /\ \/ /\ stagingExists' = FALSE
          /\ outcome' = "success"
          /\ pc' = "done"
          /\ UNCHANGED <<failure, cleanupFailed>>
       \/ /\ cleanupFailed' = TRUE
          /\ failure' = "cleanup"
          /\ pc' = "except"
          /\ UNCHANGED <<stagingExists, outcome>>
    /\ UNCHANGED <<otherVars, run, source, changes, targetExists, target, staging,
                   tempDefined, offset, total_rows, rows, attempt, stagingCreated,
                   stagingExpires, reported, lastOutcome, next_offset, tracker, keys,
                   timedOut, deleted, targetBefore, stmts, batches, dry_run>>

\* except Exception as e: delete the temp table if temp_table_id is bound, a failure of
\* which is printed; raise e.
TM_Except ==
    /\ pipeline = TenantMember
    /\ pc = "except"
    /\ outcome' = "raised"
    /\ reported' = failure
    /\ pc' = "done"
    /\ \/ /\ ~tempDefined
          /\ UNCHANGED <<stagingExists, cleanupFailed>>
       \/ /\ tempDefined
          /\ stagingExists' = FALSE
          /\ UNCHANGED cleanupFailed
       \/ /\ tempDefined
          /\ cleanupFailed' = TRUE
          /\ UNCHANGED stagingExists
    /\ UNCHANGED <<otherVars, run, source, changes, targetExists, target, staging,
                   tempDefined, offset, total_rows, rows, attempt, failure, stagingCreated,
                   stagingExpires, lastOutcome, next_offset, tracker, keys, timedOut,
                   deleted, targetBefore, stmts, batches, dry_run>>

\* ---------------------------------------------------------------- tenant team dimension
\* sync_tenant_team_dimension_full of tenant_team_dimension_sync_daily/main.py.

\* get_snowflake_creds; temp_table_id is bound to the fixed name TENANT_TEAM_DIMENSION_temp;
\* schema from Snowflake; create_table(table, exists_ok=True) for the target and for the
\* temp table: a temp table left by an earlier invocation is taken as it is, and a new
\* one gets no expiry.
TT_Prepare ==
    /\ pipeline = TenantTeam
    /\ pc = "start"
    /\ \/ /\ failure' = "setup"
          /\ pc' = "except"
          /\ UNCHANGED <<targetExists, stagingExists, tempDefined, stagingCreated>>
       \/ /\ tempDefined' = TRUE
          /\ failure' = "setup"
          /\ pc' = "except"
          /\ UNCHANGED <<targetExists, stagingExists, stagingCreated>>
       \/ /\ tempDefined' = TRUE
          /\ targetExists' = TRUE
          /\ failure' = "setup"
          /\ pc' = "except"
          /\ UNCHANGED <<stagingExists, stagingCreated>>
       \/ /\ tempDefined' = TRUE
          /\ targetExists' = TRUE
          /\ stagingExists' = TRUE
          /\ stagingCreated' = ~stagingExists
          /\ pc' = "fetch"
          /\ UNCHANGED failure
    /\ UNCHANGED <<otherVars, run, source, changes, target, staging, offset, total_rows,
                   rows, attempt, outcome, cleanupFailed, stagingExpires, reported,
                   lastOutcome, next_offset, tracker, keys, timedOut, deleted,
                   targetBefore, stmts, batches, dry_run>>

\* SELECT * FROM DIMN_TENANT_TEAM ORDER BY TENANT_TEAM_NAME; fetchall.
TT_Fetch ==
    /\ pipeline = TenantTeam
    /\ pc = "fetch"
    /\ \/ \E s \in QueryOrders(pipeline, source) :
            /\ rows' = s
            /\ batches' = IF s = <<>> THEN batches ELSE Append(batches, s)
            /\ pc' = IF s = <<>> THEN "empty" ELSE "load"
            /\ UNCHANGED failure
       \/ /\ failure' = "extract"
          /\ pc' = "except"
          /\ UNCHANGED <<rows, batches>>
    /\ UNCHANGED <<otherVars, run, source, changes, targetExists, target, stagingExists,
                   staging, tempDefined, offset, total_rows, attempt, outcome,
                   cleanupFailed, stagingCreated, stagingExpires, reported, lastOutcome,
                   next_offset, tracker, keys, timedOut, deleted, targetBefore, stmts,
                   dry_run>>

\* for i in range(0, len(tenant_team_data), batch_size): insert_rows_json(temp_table,
\* batch); returned errors are raised.
TT_Load ==
    /\ pipeline = TenantTeam
    /\ pc = "load"
    /\ \/ /\ staging' = AppendRows(staging, Page(rows, offset, BatchSize))
          /\ total_rows' = total_rows + Len(Page(rows, offset, BatchSize))
          /\ offset' = offset + BatchSize
          /\ pc' = IF offset' < Len(rows) THEN "load" ELSE "truncate"
          /\ UNCHANGED failure
       \/ /\ failure' = "load"
          /\ pc' = "except"
          /\ UNCHANGED <<staging, offset, total_rows>>
    /\ UNCHANGED <<otherVars, run, source, changes, targetExists, target, stagingExists,
                   tempDefined, rows, attempt, outcome, cleanupFailed, stagingCreated,
                   stagingExpires, reported, lastOutcome, next_offset, tracker, keys,
                   timedOut, deleted, targetBefore, stmts, batches, dry_run>>

\* TRUNCATE TABLE target.
TT_Truncate ==
    /\ pipeline = TenantTeam
    /\ pc = "truncate"
    /\ \/ /\ target' = EmptyTable(pipeline)
          /\ stmts' = Append(stmts, "TRUNCATE")
          /\ pc' = "insert"
          /\ UNCHANGED failure
       \/ /\ failure' = "reconcile"
          /\ pc' = "except"
          /\ UNCHANGED <<target, stmts>>
    /\ UNCHANGED <<otherVars, run, source, changes, targetExists, stagingExists, staging,
                   tempDefined, offset, total_rows, rows, attempt, outcome, cleanupFailed,
                   stagingCreated, stagingExpires, reported, lastOutcome, next_offset,
                   tracker, keys, timedOut, deleted, targetBefore, batches, dry_run>>

\* INSERT INTO target SELECT * FROM temp.
TT_Insert ==
    /\ pipeline = TenantTeam
    /\ pc = "insert"
    /\ \/ /\ target' = InsertSelect(target, staging)
          /\ stmts' = Append(stmts, "INSERT")
          /\ pc' = "cleanup"
          /\ UNCHANGED failure
       \/ /\ failure' = "reconcile"
          /\ pc' = "except"
          /\ UNCHANGED <<target, stmts>>
    /\ UNCHANGED <<otherVars, run, source, changes, targetExists, stagingExists, staging,
                   tempDefined, offset, total_rows, rows, attempt, outcome, cleanupFailed,
                   stagingCreated, stagingExpires, reported, lastOutcome, next_offset,
                   tracker, keys, timedOut, deleted, targetBefore, batches, dry_run>>

\* delete_table(temp_table_id), inside the try block.
TT_Cleanup ==
    /\ pipeline = TenantTeam
    /\ pc = "cleanup"
    /\ \/ /\ stagingExists' = FALSE
          /\ pc' = "verify"
          /\ UNCHANGED <<failure, cleanupFailed>>
       \/ /\ cleanupFailed' = TRUE
          /\ failure' = "cleanup"
          /\ pc' = "except"
          /\ UNCHANGED stagingExists
    /\ UNCHANGED <<otherVars, run, source, changes, targetExists, target, staging,
                   tempDefined, offset, total_rows, rows, attempt, outcome, stagingCreated,
                   stagingExpires, reported, lastOutcome, next_offset, tracker, keys,
                   timedOut, deleted, targetBefore, stmts, batches, dry_run>>

\* SELECT COUNT(*) of the target, then return status success, 200.
TT_Verify ==
    /\ pipeline = TenantTeam
    /\ pc = "verify"
    /\ \/ /\ outcome' = "success"
          /\ pc' = "done"
          /\ UNCHANGED failure
       \/ /\ failure' = "verify"
          /\ pc' = "except"
          /\ UNCHANGED outcome
    /\ UNCHANGED <<otherVars, run, source, changes, targetExists, target, stagingExists,
                   staging, tempDefined, offset, total_rows, rows, attempt, cleanupFailed,
                   stagingCreated, stagingExpires, reported, lastOutcome, next_offset,
                   tracker, keys, timedOut, deleted, targetBefore, stmts, batches, dry_run>>

\* No row fetched: return status warning, 200; neither the target nor the temp table
\* is touched.
TT_Empty ==
    /\ pipeline = TenantTeam
    /\ pc = "empty"
    /\ outcome' = "warning"
    /\ pc' = "done"
    /\ UNCHANGED <<otherVars, run, source, changes, targetExists, target, stagingExists,
                   staging, tempDefined, offset, total_rows, rows, attempt, failure,
                   cleanupFailed, stagingCreated, stagingExpires, reported, lastOutcome,
                   next_offset, tracker, keys, timedOut, deleted, targetBefore, stmts,
                   batches, dry_run>>

\* except Exception as e: try delete_table(temp_table_id, not_found_ok=True) except: pass;
\* return status error with str(e), 500.
TT_Except ==
    /\ pipeline = TenantTeam
    /\ pc = "except"
    /\ outcome' = "error"
    /\ reported' = failure
    /\ pc' = "done"
    /\ \/ /\ ~tempDefined
          /\ UNCHANGED <<stagingExists, cleanupFailed>>
       \/ /\ tempDefined
          /\ stagingExists' = FALSE
          /\ UNCHANGED cleanupFailed
       \/ /\ tempDefined
          /\ cleanupFailed' = TRUE
          /\ UNCHANGED stagingExists
    /\ UNCHANGED <<otherVars, run, source, changes, targetExists, target, staging,
                   tempDefined, offset, total_rows, rows, attempt, failure, stagingCreated,
                   stagingExpires, lastOutcome, next_offset, tracker, keys, timedOut,
                   deleted, targetBefore, stmts, batches, dry_run>>

\* ---------------------------------------------------------------- user time entries
\* main of snowflake_bq_sync Time details/main.py: one batch per invocation, no handler.

\* offset comes from the request: 0, or the next_offset of the previous response;
\* get_snowflake_creds and create_bq_tables_if_not_exist.
TD_Start ==
    /\ pipeline = TimeDetails
    /\ pc = "start"
    /\ \/ \E o \in {0, next_offset} :
            /\ offset' = o
            /\ targetExists' = TRUE
            /\ pc' = "fetch"
            /\ UNCHANGED <<outcome, failure, reported>>
       \/ /\ failure' = "setup"
          /\ outcome' = "raised"
          /\ reported' = failure'
          /\ pc' = "done"
          /\ UNCHANGED <<targetExists, offset>>
    /\ UNCHANGED <<otherVars, run, source, changes, target, stagingExists, staging,
                   tempDefined, total_rows, rows, attempt, cleanupFailed, stagingCreated,
                   stagingExpires, lastOutcome, next_offset, tracker, keys, timedOut,
                   deleted, targetBefore, stmts, batches, dry_run>>

\* fetch_next_batch: SELECT * ... ORDER BY TIME_ENTRY_ID LIMIT batch_size OFFSET offset;
\* no rows: return status complete with next_offset = offset.
TD_Fetch ==
    /\ pipeline = TimeDetails
    /\ pc = "fetch"
    /\ \/ \E s \in QueryOrders(pipeline, source) :
            /\ rows' = Page(s, offset, BatchSize)
            /\ batches' = IF rows' = <<>> THEN batches ELSE Append(batches, rows')
            /\ outcome' = IF rows' = <<>> THEN "success" ELSE outcome
            /\ next_offset' = IF rows' = <<>> THEN offset ELSE next_offset
            /\ pc' = IF rows' = <<>> THEN "done" ELSE "load"
            /\ UNCHANGED <<failure, reported>>
       \/ /\ failure' = "extract"
          /\ outcome' = "raised"
          /\ reported' = failure'
          /\ pc' = "done"
          /\ UNCHANGED <<rows, next_offset, batches>>
    /\ UNCHANGED <<otherVars, run, source, changes, targetExists, target, stagingExists,
                   staging, tempDefined, offset, total_rows, attempt, cleanupFailed,
                   stagingCreated, stagingExpires, lastOutcome, tracker, keys, timedOut,
                   deleted, targetBefore, stmts, dry_run>>

\* insert_rows_json into USER_TIME_ENTRY_BQ, then into time_sync_tracker; return
\* next_offset = offset + rows_processed, status complete when the batch was short.
TD_Insert ==
    /\ pipeline = TimeDetails
    /\ pc = "load"
    /\ \/ /\ target' = AppendRows(target, rows)
          /\ stmts' = Append(stmts, "INSERT")
          /\ tracker' = tracker + Len(rows)
          /\ total_rows' = Len(rows)
          /\ next_offset' = offset + Len(rows)
          /\ outcome' = IF Len(rows) < BatchSize THEN "success" ELSE "more"
          /\ pc' = "done"
          /\ UNCHANGED <<failure, reported>>
       \/ /\ target' = AppendRows(target, rows)
          /\ stmts' = Append(stmts, "INSERT")
          /\ failure' = "tracker"
          /\ outcome' = "raised"
          /\ reported' = failure'
          /\ pc' = "done"
          /\ UNCHANGED <<total_rows, next_offset, tracker>>
       \/ /\ failure' = "insert"
          /\ outcome' = "raised"
          /\ reported' = failure'
          /\ pc' = "done"
          /\ UNCHANGED <<target, total_rows, next_offset, tracker, stmts>>
    /\ UNCHANGED <<otherVars, run, source, changes, targetExists, stagingExists, staging,
                   tempDefined, offset, rows, attempt, cleanupFailed, stagingCreated,
                   stagingExpires, lastOutcome, keys, timedOut, deleted, targetBefore,
                   batches, dry_run>>

\* ---------------------------------------------------------------- user time entries, daily sync
\* sync_daily_incremental of snowflake_bq_sync_daily Time Details/main.py.

\* get_snowflake_creds; temp_table_id is bound; get_table(target) gives the schema, on
\* NotFound the schema comes from Snowflake and the target is not created;
\* create_table(temp_table) with an expiry.
TS_Prepare ==
    /\ pipeline = TimeDaily
    /\ pc = "start"
    /\ \/ /\ failure' = "setup"
          /\ pc' = "except"
          /\ UNCHANGED <<stagingExists, tempDefined, stagingCreated, stagingExpires>>
       \/ /\ tempDefined' = TRUE
          /\ failure' = "setup"
          /\ pc' = "except"
          /\ UNCHANGED <<stagingExists, stagingCreated, stagingExpires>>
       \/ /\ tempDefined' = TRUE
          /\ stagingExists' = TRUE
          /\ stagingCreated' = TRUE
          /\ stagingExpires' = TRUE
          /\ pc' = "fetch"
          /\ UNCHANGED failure
    /\ UNCHANGED <<otherVars, run, source, changes, targetExists, target, staging, offset,
                   total_rows, rows, attempt, outcome, cleanupFailed, reported,
                   lastOutcome, next_offset, tracker, keys, timedOut, deleted,
                   targetBefore, stmts, batches, dry_run>>

\* SELECT * ... WHERE REPORTING_DATE BETWEEN start AND end ORDER BY TIME_ENTRY_ID,
\* REPORTING_DATE LIMIT batch_size OFFSET offset.
TS_Fetch ==
    /\ pipeline = TimeDaily
    /\ pc = "fetch"
    /\ \/ \E s \in QueryOrders(pipeline, Selected(pipeline, source)) :
            /\ rows' = Page(s, offset, BatchSize)
            /\ total_rows' = total_rows + Len(rows')
            /\ pc' = IF rows' = <<>> THEN "merge" ELSE "load"
            /\ batches' = IF rows' = <<>> THEN batches ELSE Append(batches, rows')
            /\ UNCHANGED failure
       \/ /\ failure' = "extract"
          /\ pc' = "except"
          /\ UNCHANGED <<total_rows, rows, batches>>
    /\ UNCHANGED <<otherVars, run, source, changes, targetExists, target, stagingExists,
                   staging, tempDefined, offset, attempt, outcome, cleanupFailed,
                   stagingCreated, stagingExpires, reported, lastOutcome, next_offset,
                   tracker, keys, timedOut, deleted, targetBefore, stmts, dry_run>>

\* insert_rows_json(temp_table_id, batch), returned errors raised; offset += batch_size.
TS_Load ==
    /\ pipeline = TimeDaily
    /\ pc = "load"
    /\ \/ /\ staging' = AppendRows(staging, rows)
          /\ offset' = offset + BatchSize
          /\ pc' = "fetch"
          /\ UNCHANGED failure
       \/ /\ failure' = "load"
          /\ pc' = "except"
          /\ UNCHANGED <<staging, offset>>
    /\ UNCHANGED <<otherVars, run, source, changes, targetExists, target, stagingExists,
                   tempDefined, total_rows, rows, attempt, outcome, cleanupFailed,
                   stagingCreated, stagingExpires, reported, lastOutcome, next_offset,
                   tracker, keys, timedOut, deleted, targetBefore, stmts, batches, dry_run>>

\* No row fetched: delete the temp table and return 200.  Otherwise one MERGE of the
\* temp table into the target ON TIME_ENTRY_ID, REPORTING_DATE, which BigQuery rejects
\* when the target does not exist.
TS_Merge ==
    /\ pipeline = TimeDaily
    /\ pc = "merge"
    /\ \/ /\ total_rows = 0
          /\ stagingExists' = FALSE
          /\ outcome' = "success"
          /\ pc' = "done"
          /\ UNCHANGED <<target, failure, cleanupFailed, stmts>>
       \/ /\ total_rows = 0
          /\ cleanupFailed' = TRUE
          /\ failure' = "cleanup"
          /\ pc' = "except"
          /\ UNCHANGED <<target, stagingExists, outcome, stmts>>
       \/ /\ total_rows > 0
          /\ targetExists
          /\ ~MergeFails(pipeline, target, staging)
          /\ target' = MergeResult(pipeline, target, staging)
          /\ stmts' = Append(stmts, "MERGE")
          /\ pc' = "cleanup"
          /\ UNCHANGED <<stagingExists, outcome, failure, cleanupFailed>>
       \/ /\ total_rows > 0
          /\ failure' = "reconcile"
          /\ pc' = "except"
          /\ UNCHANGED <<target, stagingExists, outcome, cleanupFailed, stmts>>
    /\ UNCHANGED <<otherVars, run, source, changes, targetExists, staging, tempDefined,
                   offset, total_rows, rows, attempt, stagingCreated, stagingExpires,
                   reported, lastOutcome, next_offset, tracker, keys, timedOut, deleted,
                   targetBefore, batches, dry_run>>

\* delete_table(temp_table_id, not_found_ok=True) after the MERGE, then return 200.
TS_Cleanup ==
    /\ pipeline = TimeDaily
    /\ pc = "cleanup"
    /\ \/ /\ stagingExists' = FALSE
          /\ outcome' = "success"
          /\ pc' = "done"
          /\ UNCHANGED <<failure, cleanupFailed>>
       \/ /\ cleanupFailed' = TRUE
          /\ failure' = "cleanup"
          /\ pc' = "except"
          /\ UNCHANGED <<stagingExists, outcome>>
    /\ UNCHANGED <<otherVars, run, source, changes, targetExists, target, staging,
                   tempDefined, offset, total_rows, rows, attempt, stagingCreated,
                   stagingExpires, reported, lastOutcome, next_offset, tracker, keys,
                   timedOut, deleted, targetBefore, stmts, batches, dry_run>>

\* except Exception: return f"Error: {e}", 500; the temp table is not touched.
TS_Except ==
    /\ pipeline = TimeDaily
    /\ pc = "except"
    /\ outcome' = "error"
    /\ reported' = failure
    /\ pc' = "done"
    /\ UNCHANGED <<otherVars, run, source, changes, targetExists, target, stagingExists,
                   staging, tempDefined, offset, total_rows, rows, attempt, failure,
                   cleanupFailed, stagingCreated, stagingExpires, lastOutcome, next_offset,
                   tracker, keys, timedOut, deleted, targetBefore, stmts, batches, dry_run>>

\* ---------------------------------------------------------------- work item budget vs actual
\* sync_daily_incremental of work_item_budget_vs_actual_sync_daily/main.py.

\* The tracking table is ensured, temp_table_id is bound, the target is found or
\* created from the Snowflake schema, the temp table is created with an expiry.
BD_Prepare ==
    /\ pipeline = BudgetDaily
    /\ pc = "start"
    /\ tempDefined' = TRUE
    /\ \/ /\ failure' = "setup"
          /\ pc' = "except"
          /\ UNCHANGED <<targetExists, stagingExists, stagingCreated, stagingExpires>>
       \/ /\ targetExists' = TRUE
          /\ failure' = "setup"
          /\ pc' = "except"
          /\ UNCHANGED <<stagingExists, stagingCreated, stagingExpires>>
       \/ /\ targetExists' = TRUE
          /\ stagingExists' = TRUE
          /\ stagingCreated' = TRUE
          /\ stagingExpires' = TRUE
          /\ pc' = "fetch"
          /\ UNCHANGED failure
    /\ UNCHANGED <<otherVars, run, source, changes, target, staging, offset, total_rows,
                   rows, attempt, outcome, cleanupFailed, reported, lastOutcome,
                   next_offset, tracker, keys, timedOut, deleted, targetBefore, stmts,
                   batches, dry_run>>

\* Top of the loop: past max_processing_time (which takes at least one batch) the loop
\* breaks; otherwise SELECT * ... WHERE REPORTING_DATE BETWEEN start AND end
\* ORDER BY WORK_ITEM_ID, REPORTING_DATE LIMIT batch_size OFFSET offset.
BD_Fetch ==
    /\ pipeline = BudgetDaily
    /\ pc = "fetch"
    /\ \/ /\ offset > 0
          /\ timedOut' = TRUE
          /\ pc' = "merge"
          /\ UNCHANGED <<total_rows, rows, failure, batches>>
       \/ \E s \in QueryOrders(pipeline, Selected(pipeline, source)) :
            /\ rows' = Page(s, offset, BatchSize)
            /\ total_rows' = total_rows + Len(rows')
            /\ pc' = IF rows' = <<>> THEN "merge" ELSE "load"
            /\ batches' = IF rows' = <<>> THEN batches ELSE Append(batches, rows')
            /\ UNCHANGED <<failure, timedOut>>
       \/ /\ failure' = "extract"
          /\ pc' = "except"
          /\ UNCHANGED <<total_rows, rows, timedOut, batches>>
    /\ UNCHANGED <<otherVars, run, source, changes, targetExists, target, stagingExists,
                   staging, tempDefined, offset, attempt, outcome, cleanupFailed,
                   stagingCreated, stagingExpires, reported, lastOutcome, next_offset,
                   tracker, keys, deleted, targetBefore, stmts, dry_run>>

\* The record keys of the batch are collected; the batch is appended to the temp table;
\* its tracking rows are appended to the tracker, errors of which are only printed;
\* offset += batch_size.
BD_Load ==
    /\ pipeline = BudgetDaily
    /\ pc = "load"
    /\ keys' = keys \cup {RecordKey(rows[i]) : i \in DOMAIN rows}
    /\ \/ /\ staging' = AppendRows(staging, rows)
          /\ tracker' = tracker + Len(rows)
          /\ offset' = offset + BatchSize
          /\ pc' = "fetch"
          /\ UNCHANGED failure
       \/ /\ staging' = AppendRows(staging, rows)
          /\ offset' = offset + BatchSize
          /\ pc' = "fetch"
          /\ UNCHANGED <<failure, tracker>>
       \/ /\ failure' = "load"
          /\ pc' = "except"
          /\ UNCHANGED <<staging, offset, tracker>>
    /\ UNCHANGED <<otherVars, run, source, changes, targetExists, target, stagingExists,
                   tempDefined, total_rows, rows, attempt, outcome, cleanupFailed,
                   stagingCreated, stagingExpires, reported, lastOutcome, next_offset,
                   timedOut, deleted, targetBefore, stmts, batches, dry_run>>

\* No row fetched: the source is only counted, nothing is deleted, the temp table is
\* deleted and 200 returned.  Otherwise one MERGE ON WORK_ITEM_ID, REPORTING_DATE.
BD_Merge ==
    /\ pipeline = BudgetDaily
    /\ pc = "merge"
    /\ \/ /\ total_rows = 0
          /\ stagingExists' = FALSE
          /\ outcome' = "success"
          /\ pc' = "done"
          /\ UNCHANGED <<target, failure, cleanupFailed, stmts>>
       \/ /\ total_rows = 0
          /\ cleanupFailed' = TRUE
          /\ failure' = "cleanup"
          /\ pc' = "except"
          /\ UNCHANGED <<target, stagingExists, outcome, stmts>>
       \/ /\ total_rows > 0
          /\ ~MergeFails(pipeline, target, staging)
          /\ target' = MergeResult(pipeline, target, staging)
          /\ stmts' = Append(stmts, "MERGE")
          /\ pc' = "stale"
          /\ UNCHANGED <<stagingExists, outcome, failure, cleanupFailed>>
       \/ /\ total_rows > 0
          /\ failure' = "reconcile"
          /\ pc' = "except"
          /\ UNCHANGED <<target, stagingExists, outcome, cleanupFailed, stmts>>
    /\ UNCHANGED <<otherVars, run, source, changes, targetExists, staging, tempDefined,
                   offset, total_rows, rows, attempt, stagingCreated, stagingExpires,
                   reported, lastOutcome, next_offset, tracker, keys, timedOut, deleted,
                   targetBefore, batches, dry_run>>

\* Smart delete: today's target rows whose record key is not among (at most 1000 of)
\* the keys collected from Snowflake are deleted.
BD_SmartDelete ==
    /\ pipeline = BudgetDaily
    /\ pc = "stale"
    /\ \/ \E K \in KeyChoices(keys) :
            /\ deleted' = SmartDeleted(target, K)
            /\ target' = DeleteRows(target, SmartDeleted(target, K))
            /\ stmts' = Append(stmts, "DELETE")
            /\ pc' = "cleanup"
            /\ UNCHANGED failure
       \/ /\ failure' = "stale"
          /\ pc' = "except"
          /\ UNCHANGED <<target, deleted, stmts>>
    /\ UNCHANGED <<otherVars, run, source, changes, targetExists, stagingExists, staging,
                   tempDefined, offset, total_rows, rows, attempt, outcome, cleanupFailed,
                   stagingCreated, stagingExpires, reported, lastOutcome, next_offset,
                   tracker, keys, timedOut, targetBefore, batches, dry_run>>

\* delete_table(temp_table_id, not_found_ok=True), then return 200.
BD_Cleanup ==
    /\ pipeline = BudgetDaily
    /\ pc = "cleanup"
    /\ \/ /\ stagingExists' = FALSE
          /\ outcome' = "success"
          /\ pc' = "done"
          /\ UNCHANGED <<failure, cleanupFailed>>
       \/ /\ cleanupFailed' = TRUE
          /\ failure' = "cleanup"
          /\ pc' = "except"
          /\ UNCHANGED <<stagingExists, outcome>>
    /\ UNCHANGED <<otherVars, run, source, changes, targetExists, target, staging,
                   tempDefined, offset, total_rows, rows, attempt, stagingCreated,
                   stagingExpires, reported, lastOutcome, next_offset, tracker, keys,
                   timedOut, deleted, targetBefore, stmts, batches, dry_run>>

\* except Exception: return f"Error: {e}", 500; the temp table is not touched.
BD_Except ==
    /\ pipeline = BudgetDaily
    /\ pc = "except"
    /\ outcome' = "error"
    /\ reported' = failure
    /\ pc' = "done"
    /\ UNCHANGED <<otherVars, run, source, changes, targetExists, target, stagingExists,
                   staging, tempDefined, offset, total_rows, rows, attempt, failure,
                   cleanupFailed, stagingCreated, stagingExpires, lastOutcome, next_offset,
                   tracker, keys, timedOut, deleted, targetBefore, stmts, batches, dry_run>>

\* sync_daily_incremental of main_backup_20250825_151405.py.

\* The tracking table is ensured, temp_table_id is bound, the target is found or
\* created from the Snowflake schema, the temp table is created with an expiry.
BB_Prepare ==
    /\ pipeline = BudgetBackup
    /\ pc = "start"
    /\ tempDefined' = TRUE
    /\ \/ /\ failure' = "setup"
          /\ pc' = "except"
          /\ UNCHANGED <<targetExists, stagingExists, stagingCreated, stagingExpires>>
       \/ /\ targetExists' = TRUE
          /\ failure' = "setup"
          /\ pc' = "except"
          /\ UNCHANGED <<stagingExists, stagingCreated, stagingExpires>>
       \/ /\ targetExists' = TRUE
          /\ stagingExists' = TRUE
          /\ stagingCreated' = TRUE
          /\ stagingExpires' = TRUE
          /\ pc' = "fetch"
          /\ UNCHANGED failure
    /\ UNCHANGED <<otherVars, run, source, changes, target, staging, offset, total_rows,
                   rows, attempt, outcome, cleanupFailed, reported, lastOutcome,
                   next_offset, tracker, keys, timedOut, deleted, targetBefore, stmts,
                   batches, dry_run>>

\* Top of the loop: past max_processing_time (which takes at least one batch) the loop
\* breaks; otherwise SELECT * ... WHERE REPORTING_DATE BETWEEN start AND end
\* ORDER BY WORK_ITEM_ID, REPORTING_DATE LIMIT batch_size OFFSET offset.
BB_Fetch ==
    /\ pipeline = BudgetBackup
    /\ pc = "fetch"
    /\ \/ /\ offset > 0
          /\ timedOut' = TRUE
          /\ pc' = "merge"
          /\ UNCHANGED <<total_rows, rows, failure, batches>>
       \/ \E s \in QueryOrders(pipeline, Selected(pipeline, source)) :
            /\ rows' = Page(s, offset, BatchSize)
            /\ total_rows' = total_rows + Len(rows')
            /\ pc' = IF rows' = <<>> THEN "merge" ELSE "load"
            /\ batches' = IF rows' = <<>> THEN batches ELSE Append(batches, rows')
            /\ UNCHANGED <<failure, timedOut>>
       \/ /\ failure' = "extract"
          /\ pc' = "except"
          /\ UNCHANGED <<total_rows, rows, timedOut, batches>>
    /\ UNCHANGED <<otherVars, run, source, changes, targetExists, target, stagingExists,
                   staging, tempDefined, offset, attempt, outcome, cleanupFailed,
                   stagingCreated, stagingExpires, reported, lastOutcome, next_offset,
                   tracker, keys, deleted, targetBefore, stmts, dry_run>>

\* the batch is appended to the temp table;
\* its tracking rows are appended to the tracker, errors of which are only printed;
\* offset += batch_size.
BB_Load ==
    /\ pipeline = BudgetBackup
    /\ pc = "load"
    /\ \/ /\ staging' = AppendRows(staging, rows)
          /\ tracker' = tracker + Len(rows)
          /\ offset' = offset + BatchSize
          /\ pc' = "fetch"
          /\ UNCHANGED failure
       \/ /\ staging' = AppendRows(staging, rows)
          /\ offset' = offset + BatchSize
          /\ pc' = "fetch"
          /\ UNCHANGED <<failure, tracker>>
       \/ /\ failure' = "load"
          /\ pc' = "except"
          /\ UNCHANGED <<staging, offset, tracker>>
    /\ UNCHANGED <<otherVars, run, source, changes, targetExists, target, stagingExists,
                   tempDefined, total_rows, rows, attempt, outcome, cleanupFailed,
                   stagingCreated, stagingExpires, reported, lastOutcome, next_offset,
                   keys, timedOut, deleted, targetBefore, stmts, batches, dry_run>>

\* No row fetched: every target row of the date window is deleted, then the temp table,
\* and 200 returned.  Otherwise one MERGE ON WORK_ITEM_ID, REPORTING_DATE.
BB_Merge ==
    /\ pipeline = BudgetBackup
    /\ pc = "merge"
    /\ \/ /\ total_rows = 0
          /\ deleted' = WindowRows(target)
          /\ target' = DeleteRows(target, WindowRows(target))
          /\ stmts' = Append(stmts, "DELETE")
          /\ stagingExists' = FALSE
          /\ outcome' = "success"
          /\ pc' = "done"
          /\ UNCHANGED <<failure, cleanupFailed>>
       \/ /\ total_rows = 0
          /\ deleted' = WindowRows(target)
          /\ target' = DeleteRows(target, WindowRows(target))
          /\ stmts' = Append(stmts, "DELETE")
          /\ cleanupFailed' = TRUE
          /\ failure' = "cleanup"
          /\ pc' = "except"
          /\ UNCHANGED <<stagingExists, outcome>>
       \/ /\ total_rows = 0
          /\ failure' = "stale"
          /\ pc' = "except"
          /\ UNCHANGED <<target, stagingExists, outcome, cleanupFailed, deleted, stmts>>
       \/ /\ total_rows > 0
          /\ ~MergeFails(pipeline, target, staging)
          /\ target' = MergeResult(pipeline, target, staging)
          /\ stmts' = Append(stmts, "MERGE")
          /\ pc' = "stale"
          /\ UNCHANGED <<stagingExists, outcome, failure, cleanupFailed, deleted>>
       \/ /\ total_rows > 0
          /\ failure' = "reconcile"
          /\ pc' = "except"
          /\ UNCHANGED <<target, stagingExists, outcome, cleanupFailed, deleted, stmts>>
    /\ UNCHANGED <<otherVars, run, source, changes, targetExists, staging, tempDefined,
                   offset, total_rows, rows, attempt, stagingCreated, stagingExpires,
                   reported, lastOutcome, next_offset, tracker, keys, timedOut,
                   targetBefore, batches, dry_run>>

\* Target rows of the date window whose (WORK_ITEM_ID, REPORTING_DATE) is not in the
\* temp table are deleted.
BB_StaleDelete ==
    /\ pipeline = BudgetBackup
    /\ pc = "stale"
    /\ \/ /\ deleted' = NotStaged(target, staging)
          /\ target' = DeleteRows(target, NotStaged(target, staging))
          /\ stmts' = Append(stmts, "DELETE")
          /\ pc' = "cleanup"
          /\ UNCHANGED failure
       \/ /\ failure' = "stale"
          /\ pc' = "except"
          /\ UNCHANGED <<target, deleted, stmts>>
    /\ UNCHANGED <<otherVars, run, source, changes, targetExists, stagingExists, staging,
                   tempDefined, offset, total_rows, rows, attempt, outcome, cleanupFailed,
                   stagingCreated, stagingExpires, reported, lastOutcome, next_offset,
                   tracker, keys, timedOut, targetBefore, batches, dry_run>>

\* delete_table(temp_table_id, not_found_ok=True), then return 200.
BB_Cleanup ==
    /\ pipeline = BudgetBackup
    /\ pc = "cleanup"
    /\ \/ /\ stagingExists' = FALSE
          /\ outcome' = "success"
          /\ pc' = "done"
          /\ UNCHANGED <<failure, cleanupFailed>>
       \/ /\ cleanupFailed' = TRUE
          /\ failure' = "cleanup"
          /\ pc' = "except"
          /\ UNCHANGED <<stagingExists, outcome>>
    /\ UNCHANGED <<otherVars, run, source, changes, targetExists, target, staging,
                   tempDefined, offset, total_rows, rows, attempt, stagingCreated,
                   stagingExpires, reported, lastOutcome, next_offset, tracker, keys,
                   timedOut, deleted, targetBefore, stmts, batches, dry_run>>

\* except Exception: return f"Error: {e}", 500; the temp table is not touched.
BB_Except ==
    /\ pipeline = BudgetBackup
    /\ pc = "except"
    /\ outcome' = "error"
    /\ reported' = failure
    /\ pc' = "done"
    /\ UNCHANGED <<otherVars, run, source, changes, targetExists, target, stagingExists,
                   staging, tempDefined, offset, total_rows, rows, attempt, failure,
                   cleanupFailed, stagingCreated, stagingExpires, lastOutcome, next_offset,
                   tracker, keys, timedOut, deleted, targetBefore, stmts, batches, dry_run>>

\* sync_daily_progressive of main_progressive.py.

\* The tracking table is ensured and the whole date range fetched by one query,
\* SELECT * ... WHERE REPORTING_DATE BETWEEN start AND end ORDER BY WORK_ITEM_ID, REPORTING_DATE.
BP_Fetch ==
    /\ pipeline = BudgetProgressive
    /\ pc = "start"
    /\ \/ \E s \in QueryOrders(pipeline, Selected(pipeline, source)) :
            /\ rows' = s
            /\ total_rows' = Len(s)
            /\ batches' = IF s = <<>> THEN batches ELSE Append(batches, s)
            /\ pc' = IF s = <<>> THEN "empty" ELSE "create_temp"
            /\ UNCHANGED failure
       \/ /\ failure' = "extract"
          /\ pc' = "except"
          /\ UNCHANGED <<total_rows, rows, batches>>
    /\ UNCHANGED <<otherVars, run, source, changes, targetExists, target, stagingExists,
                   staging, tempDefined, offset, attempt, outcome, cleanupFailed,
                   stagingCreated, stagingExpires, reported, lastOutcome, next_offset,
                   tracker, keys, timedOut, deleted, targetBefore, stmts, dry_run>>

\* if not sf_rows: every target row of the date range is deleted and 200 returned; the
\* DELETE raises when the target table is missing.
BP_Empty ==
    /\ pipeline = BudgetProgressive
    /\ pc = "empty"
    /\ \/ /\ targetExists
          /\ deleted' = WindowRows(target)
          /\ target' = DeleteRows(target, WindowRows(target))
          /\ stmts' = Append(stmts, "DELETE")
          /\ outcome' = "success"
          /\ pc' = "done"
          /\ UNCHANGED failure
       \/ /\ failure' = "stale"
          /\ pc' = "except"
          /\ UNCHANGED <<target, outcome, deleted, stmts>>
    /\ UNCHANGED <<otherVars, run, source, changes, targetExists, stagingExists, staging,
                   tempDefined, offset, total_rows, rows, attempt, cleanupFailed,
                   stagingCreated, stagingExpires, reported, lastOutcome, next_offset,
                   tracker, keys, timedOut, targetBefore, batches, dry_run>>

\* temp_table_id is bound; get_table(target) raises RuntimeError on NotFound; the temp
\* table is created with an expiry.
BP_CreateTemp ==
    /\ pipeline = BudgetProgressive
    /\ pc = "create_temp"
    /\ tempDefined' = TRUE
    /\ \/ /\ ~targetExists
          /\ failure' = "setup"
          /\ pc' = "except"
          /\ UNCHANGED <<stagingExists, stagingCreated, stagingExpires>>
       \/ /\ targetExists
          /\ failure' = "setup"
          /\ pc' = "except"
          /\ UNCHANGED <<stagingExists, stagingCreated, stagingExpires>>
       \/ /\ targetExists
          /\ stagingExists' = TRUE
          /\ stagingCreated' = TRUE
          /\ stagingExpires' = TRUE
          /\ pc' = "load"
          /\ UNCHANGED failure
    /\ UNCHANGED <<otherVars, run, source, changes, targetExists, target, staging, offset,
                   total_rows, rows, attempt, outcome, cleanupFailed, reported,
                   lastOutcome, next_offset, tracker, keys, timedOut, deleted,
                   targetBefore, stmts, batches, dry_run>>

\* One load job with WRITE_TRUNCATE puts all fetched rows into the temp table.
BP_Load ==
    /\ pipeline = BudgetProgressive
    /\ pc = "load"
    /\ \/ /\ staging' = AppendRows(EmptyTable(pipeline), rows)
          /\ pc' = "merge"
          /\ UNCHANGED failure
       \/ /\ failure' = "load"
          /\ pc' = "except"
          /\ UNCHANGED staging
    /\ UNCHANGED <<otherVars, run, source, changes, targetExists, target, stagingExists,
                   tempDefined, offset, total_rows, rows, attempt, outcome, cleanupFailed,
                   stagingCreated, stagingExpires, reported, lastOutcome, next_offset,
                   tracker, keys, timedOut, deleted, targetBefore, stmts, batches, dry_run>>

\* One MERGE ON WORK_ITEM_ID, REPORTING_DATE.
BP_Merge ==
    /\ pipeline = BudgetProgressive
    /\ pc = "merge"
    /\ \/ /\ ~MergeFails(pipeline, target, staging)
          /\ target' = MergeResult(pipeline, target, staging)
          /\ stmts' = Append(stmts, "MERGE")
          /\ pc' = "stale"
          /\ UNCHANGED failure
       \/ /\ failure' = "reconcile"
          /\ pc' = "except"
          /\ UNCHANGED <<target, stmts>>
    /\ UNCHANGED <<otherVars, run, source, changes, targetExists, stagingExists, staging,
                   tempDefined, offset, total_rows, rows, attempt, outcome, cleanupFailed,
                   stagingCreated, stagingExpires, reported, lastOutcome, next_offset,
                   tracker, keys, timedOut, deleted, targetBefore, batches, dry_run>>

\* Target rows of the date range whose (WORK_ITEM_ID, REPORTING_DATE) is not in the temp
\* table are deleted.
BP_StaleDelete ==
    /\ pipeline = BudgetProgressive
    /\ pc = "stale"
    /\ \/ /\ deleted' = NotStaged(target, staging)
          /\ target' = DeleteRows(target, NotStaged(target, staging))
          /\ stmts' = Append(stmts, "DELETE")
          /\ pc' = "cleanup"
          /\ UNCHANGED failure
       \/ /\ failure' = "stale"
          /\ pc' = "except"
          /\ UNCHANGED <<target, deleted, stmts>>
    /\ UNCHANGED <<otherVars, run, source, changes, targetExists, stagingExists, staging,
                   tempDefined, offset, total_rows, rows, attempt, outcome, cleanupFailed,
                   stagingCreated, stagingExpires, reported, lastOutcome, next_offset,
                   tracker, keys, timedOut, targetBefore, batches, dry_run>>

\* The tracking rows are appended, errors of which are only printed; then
\* delete_table(temp_table_id, not_found_ok=True) and return 200.
BP_Cleanup ==
    /\ pipeline = BudgetProgressive
    /\ pc = "cleanup"
    /\ \/ /\ tracker' = tracker + Len(rows)
          /\ stagingExists' = FALSE
          /\ outcome' = "success"
          /\ pc' = "done"
          /\ UNCHANGED <<failure, cleanupFailed>>
       \/ /\ stagingExists' = FALSE
          /\ outcome' = "success"
          /\ pc' = "done"
          /\ UNCHANGED <<failure, cleanupFailed, tracker>>
       \/ /\ cleanupFailed' = TRUE
          /\ failure' = "cleanup"
          /\ pc' = "except"
          /\ UNCHANGED <<stagingExists, outcome, tracker>>
    /\ UNCHANGED <<otherVars, run, source, changes, targetExists, target, staging,
                   tempDefined, offset, total_rows, rows, attempt, stagingCreated,
                   stagingExpires, reported, lastOutcome, next_offset, keys, timedOut,
                   deleted, targetBefore, stmts, batches, dry_run>>

\* except Exception: return f"Error: {e}", 500; the temp table is not touched.
BP_Except ==
    /\ pipeline = BudgetProgressive
    /\ pc = "except"
    /\ outcome' = "error"
    /\ reported' = failure
    /\ pc' = "done"
    /\ UNCHANGED <<otherVars, run, source, changes, targetExists, target, stagingExists,
                   staging, tempDefined, offset, total_rows, rows, attempt, failure,
                   cleanupFailed, stagingCreated, stagingExpires, lastOutcome, next_offset,
                   tracker, keys, timedOut, deleted, targetBefore, stmts, batches, dry_run>>

UnifiedFullNext ==
    \/ UF_EnsureTarget \/ UF_CreateTemp \/ UF_FetchBatch \/ UF_LoadBatch \/ UF_Replace
    \/ UF_Cleanup \/ UF_Return \/ UF_Except

UnifiedIncrNext ==
    \/ UI_EnsureTarget \/ UI_FetchBatch \/ UI_MergeBatch \/ UI_Deduplicate \/ UI_Return
    \/ UI_Except

DetailsDailyNext ==
    \/ DD_Prepare \/ DD_Fetch \/ DD_Load \/ DD_Merge \/ DD_Cleanup \/ DD_Except

DetailsFullNext ==
    \/ DF_Prepare \/ DF_Fetch \/ DF_Load \/ DF_Merge \/ DF_Cleanup \/ DF_Except

TenantMemberNext ==
    \/ TM_Prepare \/ TM_Fetch \/ TM_Load \/ TM_Truncate \/ TM_Insert \/ TM_Cleanup
    \/ TM_Except

TenantTeamNext ==
    \/ TT_Prepare \/ TT_Fetch \/ TT_Load \/ TT_Truncate \/ TT_Insert \/ TT_Cleanup
    \/ TT_Verify \/ TT_Empty \/ TT_Except

TimeDetailsNext ==
    \/ TD_Start \/ TD_Fetch \/ TD_Insert

TimeDailyNext ==
    \/ TS_Prepare \/ TS_Fetch \/ TS_Load \/ TS_Merge \/ TS_Cleanup \/ TS_Except

BudgetDailyNext ==
    \/ BD_Prepare \/ BD_Fetch \/ BD_Load \/ BD_Merge \/ BD_SmartDelete \/ BD_Cleanup
    \/ BD_Except

BudgetBackupNext ==
    \/ BB_Prepare \/ BB_Fetch \/ BB_Load \/ BB_Merge \/ BB_StaleDelete \/ BB_Cleanup
    \/ BB_Except

BudgetProgressiveNext ==
    \/ BP_Fetch \/ BP_Empty \/ BP_CreateTemp \/ BP_Load \/ BP_Merge \/ BP_StaleDelete
    \/ BP_Cleanup \/ BP_Except

Next ==
    \/ SourceChange \/ Invoke \/ Return \/ UnifiedFullNext \/ UnifiedIncrNext
    \/ PH_Except \/ PH_DryRun \/ DetailsDailyNext \/ DetailsFullNext \/ TenantMemberNext
    \/ TenantTeamNext \/ TimeDetailsNext \/ TimeDailyNext \/ BudgetDailyNext
    \/ BudgetBackupNext \/ BudgetProgressiveNext

Spec == Init /\ [][Next]_vars

\* The full syncs of the dimension tables alone: run_full_sync of the unified
\* pipeline and the tenant team member dimension.
DimensionPipelines == {UnifiedFull, TenantMember}

DimensionInit == pipeline \in DimensionPipelines /\ Init

DimensionNext ==
    \/ SourceChange \/ Invoke \/ Return \/ UnifiedFullNext \/ PH_Except
    \/ TenantMemberNext

DimensionSpec == DimensionInit /\ [][DimensionNext]_vars

\* pipeline_handler alone: invocations of the two sync types of the unified pipeline,
\* with and without dry_run, over a source that stays as it is.
HandlerInit == pipeline \in {UnifiedFull, UnifiedIncr} /\ Init

HandlerNext ==
    \/ Invoke \/ Return \/ UnifiedFullNext \/ UnifiedIncrNext
    \/ PH_Except \/ PH_DryRun

HandlerSpec == HandlerInit /\ [][HandlerNext]_vars

\* ---------------------------------------------------------------- connection pool
\* SnowflakeConnectionPool of core/credentials_manager.py.  A connection is put back into
\* the pool only if it is not closed, close_all empties the pool, and no caller closes
\* the connection it was given, so no connection in the pool is closed and the
\* "elif conn:" arm of get_connection, which discards a closed one, is never taken.

\* time.sleep(2 ** attempt)
Backoff(a) == 2 ^ a

\* A wait that does not grow.
AttemptFailedFixedWait(t) ==
    /\ attempts' = [attempts EXCEPT ![t] = @ + 1]
    /\ waits' = [waits EXCEPT ![t] =
                    IF attempts[t] + 1 < retry_attempts THEN Append(@, 2) ELSE @]
    /\ caller' = [caller EXCEPT ![t] =
                    IF attempts[t] + 1 < retry_attempts THEN "loop" ELSE "failed"]

\* except (DatabaseError, OperationalError): close conn if there is one, attempt += 1,
\* sleep if attempts are left; after the last one the loop ends with conn = None and
\* ConnectionError is raised.
AttemptFailed(t) ==
    /\ attempts' = [attempts EXCEPT ![t] = @ + 1]
    /\ waits' = [waits EXCEPT ![t] =
                    IF attempts[t] + 1 < retry_attempts
                    THEN Append(@, Backoff(attempts[t] + 1)) ELSE @]
    /\ caller' = [caller EXCEPT ![t] =
                    IF attempts[t] + 1 < retry_attempts THEN "loop" ELSE "failed"]

\* get_connection is entered: conn = None, attempt = 0.
GC_Enter(t) ==
    /\ caller[t] = "idle"
    /\ caller' = [caller EXCEPT ![t] = "loop"]
    /\ UNCHANGED <<pool, active_connections, attempts, waits, validated, pipeline, syncVars, compVars>>

\* with self._lock: pop a pooled connection; or create one and count it while
\* active_connections < max_connections; or, at the cap, log "pool exhausted" and create
\* one all the same, uncounted.  _create_connection raises what connect raised
\* (DatabaseError, OperationalError: a failed attempt) or what the credentials manager
\* raised (any other exception: it leaves get_connection at once).
GC_Acquire(t) ==
    /\ caller[t] = "loop"
    /\ \/ /\ pool > 0
          /\ pool' = pool - 1
          /\ caller' = [caller EXCEPT ![t] = "test"]
          /\ UNCHANGED <<active_connections, attempts, waits>>
       \/ /\ pool = 0
          /\ active_connections < max_connections
          /\ active_connections' = active_connections + 1
          /\ caller' = [caller EXCEPT ![t] = "test"]
          /\ UNCHANGED <<pool, attempts, waits>>
       \/ /\ pool = 0
          /\ active_connections >= max_connections
          /\ caller' = [caller EXCEPT ![t] = "test"]
          /\ UNCHANGED <<pool, active_connections, attempts, waits>>
       \/ /\ pool = 0
          /\ AttemptFailed(t)
          /\ UNCHANGED <<pool, active_connections>>
       \/ /\ pool = 0
          /\ caller' = [caller EXCEPT ![t] = "raw"]
          /\ UNCHANGED <<pool, active_connections, attempts, waits>>
    /\ UNCHANGED <<validated, pipeline, syncVars, compVars>>

\* conn.cursor().execute("SELECT 1"): break out of the loop, or a failed attempt in
\* which the connection is closed (active_connections stays as it is).
GC_Test(t) ==
    /\ caller[t] = "test"
    /\ \/ /\ validated' = [validated EXCEPT ![t] = TRUE]
          /\ caller' = [caller EXCEPT ![t] = "using"]
          /\ UNCHANGED <<attempts, waits>>
       \/ /\ AttemptFailed(t)
          /\ UNCHANGED validated
    /\ UNCHANGED <<pool, active_connections, pipeline, syncVars, compVars>>

\* finally, with self._lock: the connection goes back into the pool if
\* len(self.pool) < max_connections, else it is closed and active_connections -= 1.
GC_Release(t) ==
    /\ caller[t] = "using"
    /\ IF pool < max_connections
       THEN pool' = pool + 1 /\ UNCHANGED active_connections
       ELSE active_connections' = active_connections - 1 /\ UNCHANGED pool
    /\ caller' = [caller EXCEPT ![t] = "idle"]
    /\ attempts' = [attempts EXCEPT ![t] = 0]
    /\ waits' = [waits EXCEPT ![t] = <<>>]
    /\ validated' = [validated EXCEPT ![t] = FALSE]
    /\ UNCHANGED <<pipeline, syncVars, compVars>>

\* The exception (ConnectionError, or the one that left the loop) is with the caller.
GC_Raise(t) ==
    /\ caller[t] \in {"failed", "raw"}
    /\ caller' = [caller EXCEPT ![t] = "idle"]
    /\ attempts' = [attempts EXCEPT ![t] = 0]
    /\ waits' = [waits EXCEPT ![t] = <<>>]
    /\ UNCHANGED <<pool, active_connections, validated, pipeline, syncVars, compVars>>

\* close_all, called in the finally block of pipeline_handler.
close_all ==
    /\ pool' = 0
    /\ active_connections' = 0
    /\ UNCHANGED <<caller, attempts, waits, validated, pipeline, syncVars, compVars>>

\* Connections handed out by get_connection and not yet returned.
HandedOut == Cardinality({t \in Workers : caller[t] = "using"})

PoolInit == pipeline = UnifiedFull /\ source = {} /\ Init

PoolNext ==
    \/ close_all
    \/ \E t \in Workers : GC_Enter(t) \/ GC_Acquire(t) \/ GC_Test(t) \/ GC_Release(t)
                            \/ GC_Raise(t)

\* Pipelines run by the threads of batch_pipeline_handler share the pool.
PoolSpec == PoolInit /\ [][PoolNext]_vars

AcquireNext ==
    \/ close_all
    \/ \E t \in Callers : GC_Enter(t) \/ GC_Acquire(t) \/ GC_Test(t) \/ GC_Release(t)
                            \/ GC_Raise(t)

\* A thread inside get_connection goes on: every holder of the lock leaves its with
\* block, connect and execute return or raise within their timeouts, and sleep ends.
AcquireSpec ==
    /\ PoolInit
    /\ [][AcquireNext]_vars
    /\ \A t \in Callers : WF_vars(GC_Acquire(t) \/ GC_Test(t))

\* ---------------------------------------------------------------- chunked sync
\* sync_daily_incremental of main_paginated.py and its time_entry_sync_state table.  Days
\* are counted from the first day of the range, today - 90 days, which is day 0; today + 90
\* days is LastDay.  A sync_id is the place of its row in the table (the uuid suffix makes
\* every sync_id new).

\* The components below run beside the pipelines: no table of a pipeline is involved.
ComponentInit == pipeline = UnifiedFull /\ source = {} /\ Init

\* A next chunk that starts a whole chunk after the last completed day.
get_next_date_chunk_skipping(found) ==
    LET done == {i \in 1..Len(sync_state) : sync_state[i].status = "COMPLETED"}
        last_date == CHOOSE d \in {sync_state[i].end_date : i \in done} :
                        \A i \in done : sync_state[i].end_date <= d
        start_date == IF found /\ done # {} THEN last_date + ChunkDays ELSE 0
    IN  [start_date |-> start_date, end_date |-> Min(start_date + ChunkDays - 1, LastDay)]

\* SELECT MAX(end_date) ... WHERE status = 'COMPLETED', then the range of the next chunk;
\* found is FALSE when the query raised.  A start_date after LastDay stands for
\* (None, None).
get_next_date_chunk(found) ==
    LET done == {i \in 1..Len(sync_state) : sync_state[i].status = "COMPLETED"}
        last_date == CHOOSE d \in {sync_state[i].end_date : i \in done} :
                        \A i \in done : sync_state[i].end_date <= d
        start_date == IF found /\ done # {} THEN last_date + 1 ELSE 0
    IN  [start_date |-> start_date, end_date |-> Min(start_date + ChunkDays - 1, LastDay)]

\* An invocation starts and asks for the next chunk; with none left it returns 200.
CH_Next(t) ==
    /\ chunk[t].pc = "idle"
    /\ \E found \in BOOLEAN :
          LET c == get_next_date_chunk(found)
          IN  /\ c.start_date > LastDay \/ Len(sync_state) < MaxRecords
              /\ chunk' = [chunk EXCEPT ![t] =
                                 IF c.start_date > LastDay THEN @
                                 ELSE [pc |-> "create", start_date |-> c.start_date,
                                       end_date |-> c.end_date, sync_id |-> 0]]
    /\ UNCHANGED <<sync_state, chunkFrame>>

\* create_sync_record: the row is inserted with status PROCESSING; or insert_rows_json
\* reports errors, and the UPDATE of the except block matches no row.
CH_Create(t) ==
    /\ chunk[t].pc = "create"
    /\ \/ /\ sync_state' = Append(sync_state,
                                  [start_date |-> chunk[t].start_date,
                                   end_date |-> chunk[t].end_date, status |-> "PROCESSING"])
          /\ chunk' = [chunk EXCEPT ![t].pc = "process", ![t].sync_id = Len(sync_state) + 1]
       \/ /\ chunk' = [chunk EXCEPT ![t] = [pc |-> "idle", start_date |-> 0, end_date |-> 0, sync_id |-> 0]]
          /\ UNCHANGED sync_state
    /\ UNCHANGED chunkFrame

\* sync_date_chunk and update_sync_record: COMPLETED; or an exception and the row is
\* set to FAILED; or that UPDATE raises too ("except: pass") and the row stays PROCESSING.
CH_Finish(t) ==
    /\ chunk[t].pc = "process"
    /\ \E status \in {"COMPLETED", "FAILED", "PROCESSING"} :
          sync_state' = [sync_state EXCEPT ![chunk[t].sync_id].status = status]
    /\ chunk' = [chunk EXCEPT ![t] = [pc |-> "idle", start_date |-> 0, end_date |-> 0, sync_id |-> 0]]
    /\ UNCHANGED chunkFrame

ChunkNext == \E t \in Callers : CH_Next(t) \/ CH_Create(t) \/ CH_Finish(t)

\* Invocations (the scheduler's and those trigger_next_chunk publishes) may overlap.
ChunkSpec == ComponentInit /\ [][ChunkNext]_vars

\* ---------------------------------------------------------------- fallback monitor
\* pipeline_fallback_monitor of pipeline_fallback_monitor.py.  check_scheduler_health
\* catches every exception and does not touch the tables' results; send_alert only logs.

\* A table is triggered for WARNING as well.
MON_TableTriggersOnWarning ==
    /\ freshness_results # <<>>
    /\ processed < Len(freshness_results)
    /\ LET t == processed + 1
           status == freshness_results[t]
       IN  IF status \in {"CRITICAL", "WARNING"}
           THEN \E fallback_success \in BOOLEAN :
                   /\ triggered' = [triggered EXCEPT ![t] =
                                        IF fallback_success THEN "ok" ELSE "failed"]
                   /\ alerts' = [alerts EXCEPT ![t] =
                                    IF fallback_success THEN "WARNING" ELSE "CRITICAL"]
           ELSE /\ alerts' = [alerts EXCEPT ![t] = IF status = "ERROR" THEN "CRITICAL" ELSE @]
                /\ UNCHANGED triggered
    /\ processed' = processed + 1
    /\ UNCHANGED <<freshness_results, latest_dates, monitorFrame>>

\* check_data_freshness: the status of one table from its days_behind.
FreshnessStatus(days_behind) ==
    IF days_behind > critical_threshold_days THEN "CRITICAL"
    ELSE IF days_behind > warning_threshold_days THEN "WARNING"
    ELSE "OK"

\* What the freshness query can find in a table: no REPORTING_DATE at all (the table
\* is empty), or a latest date up to MaxDaysBehind days back or one day ahead.
LatestDates ==
    {[latest_date |-> "NULL", days_behind |-> 0]}
    \cup [latest_date : {"date"}, days_behind : (-1)..MaxDaysBehind]

\* check_data_freshness: days_behind = result.days_behind or 0
days_behind_or_0(result) == IF result.latest_date = "NULL" THEN 0 ELSE result.days_behind

\* A monitor run starts: check_data_freshness queries every table; a query that raises
\* gives the table the status ERROR.
MON_Check ==
    /\ freshness_results = <<>>
    /\ \E result \in [Tables -> LatestDates], raised \in SUBSET Tables :
          /\ latest_dates' = result
          /\ freshness_results' =
                 [t \in Tables |->
                     IF t \in raised THEN "ERROR"
                     ELSE FreshnessStatus(days_behind_or_0(result[t]))]
    /\ UNCHANGED <<processed, triggered, alerts, monitorFrame>>

\* One turn of "for table_name, result in freshness_results.items()".
MON_Table ==
    /\ freshness_results # <<>>
    /\ processed < Len(freshness_results)
    /\ LET t == processed + 1
           status == freshness_results[t]
       IN  IF status = "CRITICAL"
           THEN \E fallback_success \in BOOLEAN :
                   /\ triggered' = [triggered EXCEPT ![t] =
                                        IF fallback_success THEN "ok" ELSE "failed"]
                   /\ alerts' = [alerts EXCEPT ![t] =
                                    IF fallback_success THEN "WARNING" ELSE "CRITICAL"]
           ELSE /\ alerts' = [alerts EXCEPT ![t] =
                                 CASE status = "WARNING" -> "WARNING"
                                   [] status = "ERROR" -> "CRITICAL"
                                   [] OTHER -> @]
                /\ UNCHANGED triggered
    /\ processed' = processed + 1
    /\ UNCHANGED <<freshness_results, latest_dates, monitorFrame>>

\* The summary alert and the e-mail report are sent and the run returns.
MON_Report ==
    /\ freshness_results # <<>>
    /\ processed = Len(freshness_results)
    /\ freshness_results' = <<>>
    /\ latest_dates' = [t \in Tables |-> [latest_date |-> "NULL", days_behind |-> 0]]
    /\ processed' = 0
    /\ triggered' = [t \in Tables |-> "no"]
    /\ alerts' = [t \in Tables |-> "none"]
    /\ UNCHANGED monitorFrame

MonitorNext == MON_Check \/ MON_Table \/ MON_Report

MonitorSpec == ComponentInit /\ [][MonitorNext]_vars

\* ---------------------------------------------------------------- schema and rows
\* The schema mappers and row normalizers of the pipelines.  A column is its Snowflake
\* data type, in upper case as information_schema gives it (the name of a column passes
\* through every mapper unchanged).  A value is a record with the Python type of the
\* value the Snowflake cursor returned.

\* Python's "sub in s" for strings.
In(sub, s) == \E i \in 1..(Len(s) - Len(sub) + 1) : SubSeq(s, i, i + Len(sub) - 1) = sub

\* data_type.split("(")[0]
BaseType(data_type) ==
    LET cut == {i \in 1..Len(data_type) : SubSeq(data_type, i, i) = "("}
    IN  IF cut = {} THEN data_type
        ELSE SubSeq(data_type, 1, (CHOOSE i \in cut : \A j \in cut : i <= j) - 1)

\* The data types drawn for a column: every key of SF_TO_BQ_TYPE_MAP, two types that are
\* in no mapping table, and a type with precision and scale.
SourceTypes ==
    {"VARCHAR", "CHAR", "TEXT", "STRING", "NUMBER", "DECIMAL", "INT", "INTEGER", "BIGINT",
     "SMALLINT", "FLOAT", "DOUBLE", "BOOLEAN", "DATE", "TIMESTAMP_NTZ", "TIMESTAMP_LTZ",
     "TIMESTAMP_TZ", "TIMESTAMP", "DATETIME", "TIME", "VARIANT", "OBJECT", "ARRAY",
     "NUMERIC", "GEOGRAPHY", "NUMBER(38,0)"}

\* PipelineBase.SF_TO_BQ_TYPE_MAP (a name may not begin with SF_ here)
sf_to_bq_type_map ==
    [VARCHAR |-> "STRING", CHAR |-> "STRING", TEXT |-> "STRING", STRING |-> "STRING",
     NUMBER |-> "NUMERIC", DECIMAL |-> "NUMERIC", INT |-> "INT64", INTEGER |-> "INT64",
     BIGINT |-> "INT64", SMALLINT |-> "INT64", FLOAT |-> "FLOAT64", DOUBLE |-> "FLOAT64",
     BOOLEAN |-> "BOOL", DATE |-> "DATE", TIMESTAMP_NTZ |-> "TIMESTAMP",
     TIMESTAMP_LTZ |-> "TIMESTAMP", TIMESTAMP_TZ |-> "TIMESTAMP", TIMESTAMP |-> "TIMESTAMP",
     DATETIME |-> "DATETIME", TIME |-> "TIME", VARIANT |-> "JSON", OBJECT |-> "JSON",
     ARRAY |-> "JSON"]

\* PipelineBase.create_bigquery_schema: SF_TO_BQ_TYPE_MAP.get(base_type, "STRING")
create_bigquery_schema(sf_columns) ==
    [i \in 1..Len(sf_columns) |->
        LET base_type == BaseType(sf_columns[i])
        IN  IF base_type \in DOMAIN sf_to_bq_type_map THEN sf_to_bq_type_map[base_type]
            ELSE "STRING"]

\* The time entry sync: its own sf_to_bq table, sf_to_bq.get(base, "STRING")
create_bq_tables_if_not_exist(columns) ==
    LET sf_to_bq ==
            [VARCHAR |-> "STRING", CHAR |-> "STRING", TEXT |-> "STRING", STRING |-> "STRING",
             NUMBER |-> "FLOAT64", DECIMAL |-> "NUMERIC", INT |-> "INT64",
             FLOAT |-> "FLOAT64", BOOLEAN |-> "BOOL", DATE |-> "DATE",
             TIMESTAMP_NTZ |-> "TIMESTAMP", TIMESTAMP_LTZ |-> "TIMESTAMP",
             TIMESTAMP_TZ |-> "TIMESTAMP", TIMESTAMP |-> "TIMESTAMP",
             DATETIME |-> "DATETIME"]
    IN  [i \in 1..Len(columns) |->
            LET base == BaseType(columns[i])
            IN  IF base \in DOMAIN sf_to_bq THEN sf_to_bq[base] ELSE "STRING"]

\* The tenant team dimension sync: a chain of substring tests on the whole data type.
get_bq_schema_from_snowflake(columns) ==
    [i \in 1..Len(columns) |->
        LET col_type == columns[i]
        IN  IF In("VARCHAR", col_type) \/ In("TEXT", col_type) \/ In("STRING", col_type)
                THEN "STRING"
            ELSE IF In("NUMBER", col_type) \/ In("DECIMAL", col_type)
                    \/ In("NUMERIC", col_type) THEN "NUMERIC"
            ELSE IF In("INTEGER", col_type) \/ In("INT", col_type) THEN "INTEGER"
            ELSE IF In("FLOAT", col_type) \/ In("DOUBLE", col_type) THEN "FLOAT"
            ELSE IF In("BOOLEAN", col_type) THEN "BOOLEAN"
            ELSE IF In("DATE", col_type) THEN "DATE"
            ELSE IF In("TIMESTAMP", col_type) \/ In("DATETIME", col_type) THEN "TIMESTAMP"
            ELSE "STRING"]

\* A pipeline reads the columns of its source table and derives the BigQuery schema.
CV_Schema ==
    /\ bq_schema.mapper = "none"
    /\ \E n \in 1..MaxColumns :
       \E columns \in [1..n -> SourceTypes], mapper \in {"base", "time_entry", "tenant_team"} :
          bq_schema' =
              [mapper |-> mapper, columns |-> columns,
               fields |-> IF mapper = "base" THEN create_bigquery_schema(columns)
                          ELSE IF mapper = "time_entry"
                              THEN create_bq_tables_if_not_exist(columns)
                          ELSE get_bq_schema_from_snowflake(columns)]
    /\ UNCHANGED <<row_dicts, convertFrame>>

\* The values drawn for a column of a fetched row: None, dates and datetimes of January
\* 2025 (day 0 is today, the 1st), Decimals with one digit after the point, lists of at
\* most one int, ints and strs.
SourceValues ==
    {[type |-> "NoneType"]}
      \cup [type : {"date"}, day : 0..MaxDate]
      \cup [type : {"datetime"}, day : 0..MaxDate, second : 0..1]
      \cup [type : {"Decimal"}, units : 0..MaxVal, tenths : 0..1]
      \cup [type : {"list"}, items : {<<>>, <<1>>}]
      \cup [type : {"int"}, v : 0..MaxVal]
      \cup [type : {"str"}, v : {"a", "null"}]

\* value.isoformat()
isoformat(value) ==
    [type |-> "str",
     v |-> "2025-01-0" \o ToString(value.day + 1)
             \o (IF value.type = "datetime" THEN "T00:00:0" \o ToString(value.second)
                 ELSE "")]

\* PipelineBase.convert_row_to_dict; datetime is the class datetime.datetime there, which
\* a datetime.date is not an instance of.
convert_row_to_dict(columns, row) ==
    [i \in 1..Len(columns) |->
        LET value == row[i]
        IN  IF value.type = "NoneType" THEN value
            ELSE IF value.type = "datetime" THEN isoformat(value)
            ELSE IF value.type = "Decimal"
                THEN [type |-> "str", v |-> ToString(value.units) \o "." \o ToString(value.tenths)]
            ELSE IF value.type = "list"
                THEN [type |-> "str",
                      v |-> IF value.items = <<>> THEN "[]"
                            ELSE "[" \o ToString(value.items[1]) \o "]"]
            ELSE value]

\* The row loop of the budget vs actual daily sync; current_date is today's date.
budget_row_dict(sf_cols, row) ==
    [i \in 1..Len(sf_cols) |->
        LET value == row[i]
        IN  IF value.type \in {"date", "datetime"} THEN isoformat(value)
            ELSE IF value.type = "Decimal"
                THEN [type |-> "str", v |-> ToString(value.units) \o "." \o ToString(value.tenths)]
            ELSE IF sf_cols[i] = "REPORTING_DATE"
                    /\ (value.type = "NoneType"
                        \/ (value.type = "str" /\ value.v \in {"none", "null", ""}))
                THEN isoformat([type |-> "date", day |-> 0])
            ELSE value]

\* A pipeline fetches a row and makes the dict it loads into BigQuery.
CV_Normalize ==
    /\ row_dicts.normalizer = "none"
    /\ \E columns \in {<<"WORK_ITEM_ID", "REPORTING_DATE">>},
          row \in [1..2 -> SourceValues], normalizer \in {"base", "budget"} :
          row_dicts' =
              [normalizer |-> normalizer, columns |-> columns, row |-> row,
               row_dict |-> IF normalizer = "base" THEN convert_row_to_dict(columns, row)
                            ELSE budget_row_dict(columns, row)]
    /\ UNCHANGED <<bq_schema, convertFrame>>

SchemaSpec == ComponentInit /\ [][CV_Schema]_vars

RowSpec == ComponentInit /\ [][CV_Normalize]_vars

\* ---------------------------------------------------------------- credentials
\* CredentialsManager of core/credentials_manager.py.  _access_secret is wrapped in
\* lru_cache: a call whose secret_id it holds returns the held value and does not reach
\* Secret Manager; a call that raises is not held.  The optional SNOWFLAKE_ROLE is left
\* out.

\* The secret is given a new version in Secret Manager.
CR_Rotate ==
    /\ \E i \in DOMAIN SecretIds :
          /\ secret_store[i] < MaxVersion
          /\ secret_store' = [secret_store EXCEPT ![i] = @ + 1]
    /\ UNCHANGED <<access_secret_cache, credentials_cache, cache_expired, credentials_call,
                   credsFrame>>

\* _cache_ttl seconds have passed since _cache_timestamp.
CR_Expire ==
    /\ ~cache_expired
    /\ cache_expired' = TRUE
    /\ UNCHANGED <<secret_store, access_secret_cache, credentials_cache, credentials_call,
                   credsFrame>>

\* get_snowflake_credentials(force_refresh): the cached dict while the cache is valid;
\* else every secret through _access_secret, in order, and the dict is cached.  failing
\* are the secrets whose access_secret_version call would raise.
CR_Get ==
    /\ \E force_refresh \in BOOLEAN, failing \in SUBSET DOMAIN SecretIds :
          LET valid == ~force_refresh /\ credentials_cache # <<>> /\ ~cache_expired
              missing == {i \in DOMAIN SecretIds : access_secret_cache[i] = 0}
              raising == {i \in missing : i \in failing}
              reads == {i \in missing : \A j \in raising : i <= j}
              held == [i \in DOMAIN SecretIds |->
                          IF i \in reads \ raising THEN secret_store[i]
                          ELSE access_secret_cache[i]]
              call == [made |-> TRUE, force_refresh |-> force_refresh, valid |-> valid,
                       cached |-> credentials_cache, store |-> secret_store]
          IN  IF valid
              THEN /\ credentials_call' =
                          call @@ [reads |-> {}, raised |-> FALSE, result |-> credentials_cache]
                   /\ UNCHANGED <<access_secret_cache, credentials_cache, cache_expired>>
              ELSE /\ access_secret_cache' = held
                   /\ credentials_call' =
                          call @@ [reads |-> reads, raised |-> raising # {},
                                   result |-> IF raising # {} THEN <<>> ELSE held]
                   /\ credentials_cache' = IF raising # {} THEN credentials_cache ELSE held
                   /\ cache_expired' = IF raising # {} THEN cache_expired ELSE FALSE
    /\ UNCHANGED <<secret_store, credsFrame>>

\* clear_cache: the dict, the timestamp and the lru_cache of _access_secret.
CR_Clear ==
    /\ credentials_cache' = <<>>
    /\ cache_expired' = TRUE
    /\ access_secret_cache' = [i \in DOMAIN SecretIds |-> 0]
    /\ UNCHANGED <<secret_store, credentials_call, credsFrame>>

CredsNext == CR_Rotate \/ CR_Expire \/ CR_Get \/ CR_Clear

CredsSpec == ComponentInit /\ [][CredsNext]_vars

\* ---------------------------------------------------------------- deduplication sync
\* run_deduplication_sync of snowflake_bq_deduplication_sync.py.  A row of a details
\* table is <<WORK_ITEM_ID, REPORTING_DATE>>, the date counted in days before today; the
\* last days_back days are the dates InWindow.

\* SELECT DISTINCT WORK_ITEM_ID ... WHERE REPORTING_DATE >= cutoff_date
get_work_items(details) == {r[1] : r \in {x \in details : InWindow(x[2])}}

\* Rows in the tables together; a work item with rows in another table counts once.
TableRows ==
    Cardinality(sf_details) + Cardinality(bq_details)
        + Cardinality({<<t, w>> \in OtherTables \X (1..MaxWorkItem) : w \in bq_others[t]})

\* Before the deduplication sync runs, the pipelines and the source put a row into a
\* table or take one out.
DS_Change ==
    /\ ~dedup_run.ran
    /\ \/ \E r \in (1..MaxWorkItem) \X Dates :
             /\ sf_details' = IF r \in sf_details THEN sf_details \ {r}
                              ELSE sf_details \cup {r}
             /\ UNCHANGED <<bq_details, bq_others>>
       \/ \E r \in (1..MaxWorkItem) \X Dates :
             /\ bq_details' = IF r \in bq_details THEN bq_details \ {r}
                              ELSE bq_details \cup {r}
             /\ UNCHANGED <<sf_details, bq_others>>
       \/ \E t \in OtherTables, w \in 1..MaxWorkItem :
             /\ bq_others' = [bq_others EXCEPT ![t] =
                                  IF w \in @ THEN @ \ {w} ELSE @ \cup {w}]
             /\ UNCHANGED <<sf_details, bq_details>>
    /\ TableRows' <= MaxTableRows
    /\ UNCHANGED <<dedup_run, dedupFrame>>

\* The requests of deduplication_sync_cloud_function: body is "json" when get_json gives
\* a non-empty object, "args" when only the query string has parameters, "none" when
\* neither has; dry_run is the value the request carries, a JSON value written as its
\* Python literal or a query-string value, "absent" when the request does not carry it;
\* work_item_id tells whether the request names a work item.
DedupRequests ==
    [body : {"none"}, dry_run : {"absent"}, work_item_id : {FALSE}]
    \cup [body : {"json"}, dry_run : {"absent", "True", "False", "None", "'false'"},
          work_item_id : BOOLEAN]
    \cup [body : {"args"}, dry_run : {"absent", "true", "TRUE", "false", "1"},
          work_item_id : BOOLEAN]

\* str.lower() on the query-string values
lower(s) == IF s = "TRUE" THEN "true" ELSE s

\* bool(value) of the Python values dry_run can hold: a non-empty string is true
Truthy(value) == value \in {"True", "'false'"}

\* deduplication_sync_cloud_function with False where the code has the default True
request_dry_run_live(request) ==
    IF request.body = "json"
    THEN IF request.dry_run = "absent" THEN "False" ELSE request.dry_run
    ELSE IF request.body = "args"
    THEN IF lower(IF request.dry_run = "absent" THEN "true" ELSE request.dry_run) = "true"
         THEN "True" ELSE "False"
    ELSE "True"

\* deduplication_sync_cloud_function: the dry_run it hands to run_deduplication_sync
request_dry_run(request) ==
    IF request.body = "json"
    THEN IF request.dry_run = "absent" THEN "True" ELSE request.dry_run
    ELSE IF request.body = "args"
    THEN IF lower(IF request.dry_run = "absent" THEN "true" ELSE request.dry_run) = "true"
         THEN "True" ELSE "False"
    ELSE "True"

\* deduplication_sync_cloud_function(request) with run_deduplication_sync(dry_run): a
\* request that names a work item is answered by its validation alone; otherwise the
\* work items of both sides, the orphans, and in live mode for each table that has rows
\* of them DELETE ... WHERE WORK_ITEM_ID IN (orphans); failing are the tables whose
\* queries raise, which are left as they are.
DS_Run ==
    /\ ~dedup_run.ran
    /\ \E request \in DedupRequests,
          failing \in SUBSET ({"WORK_ITEM_DETAILS_BQ"} \cup OtherTables) :
          LET no_delete == Truthy(request_dry_run(request)) \/ request.work_item_id
              sf_work_items == get_work_items(sf_details)
              bq_work_items == get_work_items(bq_details)
              orphaned_items == IF request.work_item_id THEN {}
                                ELSE bq_work_items \ sf_work_items
              live(t) == ~no_delete /\ t \notin failing
          IN  /\ dedup_run' = [ran |-> TRUE, request |-> request,
                               dry_run |-> Truthy(request_dry_run(request)),
                               orphaned_items |-> orphaned_items,
                               deleted_from |->
                                   {t \in {"WORK_ITEM_DETAILS_BQ"} : live(t) /\
                                       \E r \in bq_details : r[1] \in orphaned_items}
                                   \cup {t \in OtherTables : live(t) /\
                                       bq_others[t] \cap orphaned_items # {}},
                               details |-> bq_details, others |-> bq_others]
              /\ bq_details' = IF live("WORK_ITEM_DETAILS_BQ")
                               THEN {r \in bq_details : r[1] \notin orphaned_items}
                               ELSE bq_details
              /\ bq_others' = [t \in OtherTables |->
                                  IF live(t) THEN bq_others[t] \ orphaned_items
                                  ELSE bq_others[t]]
    /\ UNCHANGED <<sf_details, dedupFrame>>

DedupSpec == ComponentInit /\ [][DS_Change \/ DS_Run]_vars

\* ---------------------------------------------------------------- time entry cleanup
\* USER_TIME_ENTRY_BQ as written by main (snowflake_bq_sync Time details/main.py) and by
\* sync_daily_incremental with cleanup_duplicate_time_entries (daily_sync.py).  A row is
\* [key, row_uuid, bq_ingestion_timestamp]: key stands for its (REPORTING_DATE,
\* TIME_ENTRY_ID), and 0 is NULL in the two other columns.

EntryKeys == 1..MaxEntryKey

\* Positions of the rows of a (REPORTING_DATE, TIME_ENTRY_ID) group.
Group(table, key) == {i \in DOMAIN table : table[i].key = key}

\* main: insert_rows_json(USER_TIME_ENTRY_BQ, bq_rows) with the columns of the Snowflake
\* table; row_uuid and bq_ingestion_timestamp are not among them.
TE_Insert ==
    /\ entry_sync.pc = "idle"
    /\ Len(time_entries) < MaxEntries
    /\ \E key \in EntryKeys :
          time_entries' = Append(time_entries,
                                 [key |-> key, row_uuid |-> 0, bq_ingestion_timestamp |-> 0])
    /\ UNCHANGED <<current_timestamp, uuids, entry_sync, entriesFrame>>

\* Rows the MERGE inserts for the staged keys that match no target row.
RECURSIVE Inserted(_, _, _)
Inserted(staged, uuid, timestamp) ==
    IF staged = <<>> THEN <<>>
    ELSE IF \E i \in DOMAIN time_entries : time_entries[i].key = Head(staged)
    THEN Inserted(Tail(staged), uuid, timestamp)
    ELSE <<[key |-> Head(staged), row_uuid |-> uuid + 1,
            bq_ingestion_timestamp |-> timestamp]>>
         \o Inserted(Tail(staged), uuid + 1, timestamp)

\* sync_daily_incremental up to its MERGE ON TIME_ENTRY_ID, REPORTING_DATE: a matched
\* row gets bq_ingestion_timestamp = CURRENT_TIMESTAMP(), an unmatched staged row is
\* inserted with GENERATE_UUID() and CURRENT_TIMESTAMP().  BigQuery rejects the MERGE
\* when a target row matches two staged rows; any earlier step may raise as well.
TE_Merge ==
    /\ entry_sync.pc = "idle"
    /\ current_timestamp <= MaxTimestamp
    /\ \E staged \in {s \in UNION {[1..n -> EntryKeys] : n \in 1..2} :
                         \A i \in 1..(Len(s) - 1) : s[i] <= s[i + 1]} :
          LET rejected == \E i, j \in DOMAIN staged :
                              /\ i # j /\ staged[i] = staged[j]
                              /\ Group(time_entries, staged[i]) # {}
              inserted == Inserted(staged, uuids, current_timestamp)
              merged == [i \in DOMAIN time_entries |->
                            IF \E j \in DOMAIN staged : staged[j] = time_entries[i].key
                            THEN [time_entries[i] EXCEPT
                                      !.bq_ingestion_timestamp = current_timestamp]
                            ELSE time_entries[i]] \o inserted
          IN  \/ /\ ~rejected
                 /\ Len(merged) <= MaxEntries
                 /\ time_entries' = merged
                 /\ uuids' = uuids + Len(inserted)
                 /\ current_timestamp' = current_timestamp + 1
                 /\ entry_sync' = [entry_sync EXCEPT !.pc = "cleanup"]
              \/ /\ entry_sync' = [entry_sync EXCEPT !.pc = "failed"]
                 /\ UNCHANGED <<time_entries, uuids, current_timestamp>>
    /\ UNCHANGED entriesFrame

\* ROW_NUMBER() OVER (PARTITION BY REPORTING_DATE, TIME_ENTRY_ID ORDER BY
\* bq_ingestion_timestamp DESC): the sets of positions that can get rn = 1, one of each
\* group, none of whose timestamps is below another's of its group (NULL sorts last).
FirstRows(table) ==
    {first \in SUBSET DOMAIN table :
        \A key \in EntryKeys :
            /\ Group(table, key) # {} => Cardinality(first \cap Group(table, key)) = 1
            /\ \A i \in first \cap Group(table, key), j \in Group(table, key) :
                   table[i].bq_ingestion_timestamp >= table[j].bq_ingestion_timestamp}

\* DELETE ... WHERE row_uuid IN (SELECT row_uuid ... WHERE rn > 1): a row whose
\* row_uuid is NULL is in no list, whatever the list holds.
DeleteRanked(table, first) ==
    LET listed == {table[i].row_uuid : i \in DOMAIN table \ first}
    IN  SelectSeq(table, LAMBDA row : ~(row.row_uuid # 0 /\ row.row_uuid \in listed))

\* cleanup_duplicate_time_entries, called after the MERGE: the DELETE, or an exception
\* that sync_daily_incremental raises again.
TE_Cleanup ==
    /\ entry_sync.pc = "cleanup"
    /\ \/ \E first \in FirstRows(time_entries) :
             /\ time_entries' = DeleteRanked(time_entries, first)
             /\ entry_sync' = [pc |-> "cleaned", before |-> time_entries]
       \/ /\ entry_sync' = [entry_sync EXCEPT !.pc = "failed"]
          /\ UNCHANGED time_entries
    /\ UNCHANGED <<current_timestamp, uuids, entriesFrame>>

\* sync_daily_incremental returns: 200 after the temp table is deleted, 500 from its
\* handler.
TE_Return ==
    /\ entry_sync.pc \in {"cleaned", "failed"}
    /\ entry_sync' = [pc |-> "idle", before |-> <<>>]
    /\ UNCHANGED <<time_entries, current_timestamp, uuids, entriesFrame>>

EntriesNext == TE_Insert \/ TE_Merge \/ TE_Cleanup \/ TE_Return

EntriesSpec == ComponentInit /\ [][EntriesNext]_vars

\* ---------------------------------------------------------------- progressive ranges
\* get_progressive_date_range of main_progressive.py, called once by each daily run of
\* sync_daily_progressive.

get_progressive_date_range ==
    LET day_of_week == today % 7
        date_ranges == <<<<-30, -15>>, <<-15, -1>>, <<0, 15>>, <<15, 30>>, <<-45, -30>>,
                         <<30, 45>>, <<-60, -45>>>>
        start_offset == date_ranges[day_of_week + 1][1]
        end_offset == date_ranges[day_of_week + 1][2]
    IN  [start_date |-> today + start_offset, end_date |-> today + end_offset,
         day_of_week |-> day_of_week]

\* The daily run of sync_daily_progressive chooses its range (a day's run may not
\* happen, and happens once).
PR_Run ==
    /\ \A r \in ranges : r.day_of_week # today % 7
    /\ ranges' = ranges \cup {get_progressive_date_range}
    /\ UNCHANGED <<today, progressiveFrame>>

\* Midnight, up to the Sunday of the week.
PR_NextDay ==
    /\ today < 6
    /\ today' = today + 1
    /\ UNCHANGED <<ranges, progressiveFrame>>

ProgressiveSpec ==
    ComponentInit /\ [][PR_Run \/ PR_NextDay]_vars

\* ---------------------------------------------------------------- properties

\* C1: when a sync invocation returns, whether it succeeded or failed in the extraction,
\* in a staging append or in the reconcile, the staging table it created has been deleted
\* (a delete_table call that itself failed aside).
C1_StagingDeletedOnReturn ==
    (/\ pc = "done"
     /\ pipeline \in {UnifiedFull, DetailsDaily}
     /\ stagingCreated
     /\ ~cleanupFailed
     /\ failure \in {"none", "extract", "load", "reconcile"})
    => ~stagingExists

\* C2: when a staging append has failed on some batch, the invocation returns with the
\* target holding exactly the rows it held before the invocation, and with the staging
\* table removed.
C2_FailedAppendLeavesTarget ==
    (pc = "done" /\ pipeline \in {UnifiedIncr, DetailsDaily} /\ failure = "load")
    => (target = targetBefore /\ ~stagingExists)

\* C3: after an invocation whose MERGE reconcile succeeded, no two rows of the target
\* share the key columns of the MERGE, whatever was staged and whatever the target held.
C3_MergeLeavesKeysUnique ==
    (/\ pc = "done"
     /\ pipeline \in {DetailsFull, UnifiedIncr, BudgetDaily}
     /\ outcome = "success"
     /\ \E i \in DOMAIN stmts : stmts[i] = "MERGE")
    => \A r \in Present(target) : SumOver(target, SameKey(pipeline, r)) = 1

\* C4: a full sync that succeeds after a full sync that succeeded, with the source
\* unchanged in between, leaves the target with the rows it had after the first.
C4_FullSyncIdempotent ==
    (/\ pc = "done"
     /\ pipeline \in {UnifiedFull, DetailsFull, TimeDetails}
     /\ run = 2
     /\ changes = 0
     /\ lastOutcome = "success"
     /\ outcome = "success"
     /\ (pipeline = TimeDetails => offset = 0))
    => target = targetBefore

\* C5: when the query for the date window returned no row (and nothing confirmed the
\* source to be empty: no entry point has such a signal), the stale cleanup deletes no
\* row of the target.
C5_NoRowsNoDelete ==
    (pipeline \in BudgetPipelines /\ total_rows = 0) => deleted = {}

\* C6: the stale cleanup after a MERGE deletes a target row only if the row lies in the
\* synced window and the source holds no row of that key in the window, however many
\* keys there are and whether or not the extraction ended early.
C6_OnlyStaleRowsDeleted ==
    (pipeline \in {BudgetDaily, BudgetBackup} /\ total_rows > 0)
    => \A r \in deleted :
          /\ InWindow(r.date)
          /\ \A s \in Selected(pipeline, source) :
                Identity(pipeline, s) # Identity(pipeline, r)

\* C7: an invocation runs its reconcile statement at most once, and only after the
\* extraction loop has ended: never once per batch.
C7_ReconcileOnceAfterExtraction ==
    pipeline \in {UnifiedIncr, DetailsDaily}
    => /\ Cardinality({i \in DOMAIN stmts : stmts[i] \in {"MERGE", "REPLACE"}}) <= 1
       /\ (stmts # <<>> => pc \notin {"fetch", "load", "merge"})

\* C8: a full sync of N source rows in batches of BatchSize fetches ceil(N / BatchSize)
\* non-empty batches; together they hold every source row, and no row twice.
C8_BatchesPartitionSource ==
    (pipeline = UnifiedFull /\ pc = "replace")
    => LET all == [i \in DOMAIN batches |-> {batches[i][j] : j \in DOMAIN batches[i]}]
           N == Cardinality(source)
       IN /\ Len(batches) = (N + BatchSize - 1) \div BatchSize
          /\ UNION {all[i] : i \in DOMAIN batches} = source
          /\ \A i \in DOMAIN batches : Len(batches[i]) = Cardinality(all[i])
          /\ \A i, j \in DOMAIN batches : i # j => all[i] \cap all[j] = {}

C8_Witness ==
    /\ pipeline = UnifiedFull
    /\ pc = "replace"
    /\ Cardinality(source) = 3
    /\ Len(batches) = 2

C10_NoRawException ==
    (pc = "done" /\ pipeline \in {UnifiedFull, UnifiedIncr, TenantMember})
    => outcome \in {"success", "error"}

\* C11: a failure of the staging cleanup never changes the outcome of a full sync: when
\* the cleanup on the success path is the first step to fail, the invocation still
\* reports success, and when an earlier step failed, the error reported is that step's
\* and not the cleanup's.
C11_CleanupFailureKeepsOutcome ==
    (pc = "done" /\ pipeline \in {UnifiedFull, DetailsFull, TenantTeam} /\ cleanupFailed)
        => IF failure = "cleanup" THEN outcome = "success" ELSE reported = failure

\* C12: at every point of a REPLACE-mode invocation, also after a failure between its
\* statements, the target holds either the complete rows it had when the invocation
\* started or the complete staged rows, never an empty or partly filled table.
C12_TargetOldOrStaged ==
    (pipeline \in {UnifiedFull, TenantMember, TenantTeam} /\ pc # "idle")
        => (target = targetBefore \/ target = staging)

\* C13: when a REPLACE-mode full sync has returned success, the target holds exactly the
\* rows of the source, once each, whatever the source holds (no row at all included)
\* and whatever the target held before.
C13_ReplaceEqualsSource ==
    (pc = "done" /\ outcome = "success" /\ pipeline \in {UnifiedFull, TenantMember})
        => \A r \in DOMAIN target : target[r] = IF r \in source THEN 1 ELSE 0

\* C14: a staging table belongs to the one invocation that created it: an invocation
\* that has appended rows to a staging table is the invocation that created that table.
C14_StagingOwnedByCreator ==
    (pipeline \in {UnifiedFull, TenantTeam} /\ pc # "idle" /\ total_rows > 0)
        => stagingCreated

\* C15: an invocation whose extraction stopped at the time limit, rows of the window
\* still unfetched, does not give its caller the answer of a completed sync.
C15_TimeLimitReportedPartial ==
    (/\ pc = "done" /\ pipeline = BudgetDaily /\ timedOut
     /\ total_rows < Cardinality(Selected(pipeline, source)))
        => outcome # "success"

\* C16: every staging table in the dataset was created with an expiry timestamp.
C16_StagingHasExpiry ==
    (pipeline \in {UnifiedFull, TenantTeam} /\ stagingExists) => stagingExpires

\* C17: whenever the reconcile statement is about to run on extracted rows, the target
\* table exists: an invocation that found it absent has created it before the extraction.
C17_TargetExistsAtReconcile ==
    (/\ pipeline \in {TimeDaily, UnifiedFull, UnifiedIncr}
     /\ pc \in {"merge", "replace"} /\ batches # <<>>)
        => targetExists

\* C18: after the MERGE of a sync of the work item details, the target holds for every
\* staged key exactly the staged row, every target row of a key that was not staged is
\* as it was, and the target has grown by one row for every staged key it did not have.
C18_MergeUpsertsStagedKeys ==
    (pc = "done" /\ outcome = "success" /\ pipeline \in {DetailsDaily, DetailsFull}
     /\ stmts = <<"MERGE">>)
        => LET stagedKeys == {MergeKey(pipeline, r) : r \in Present(staging)}
               oldKeys == {MergeKey(pipeline, r) : r \in Present(targetBefore)}
           IN /\ \A r \in DOMAIN target :
                    IF MergeKey(pipeline, r) \in stagedKeys
                    THEN (target[r] > 0) = (staging[r] > 0)
                    ELSE target[r] = targetBefore[r]
              /\ RowCount(target) = RowCount(targetBefore) + Cardinality(stagedKeys \ oldKeys)

\* C19: the connections handed out by the pool and not yet returned never number more
\* than max_connections, however many threads ask for one.
C19_HandedOutWithinCap == HandedOut <= max_connections

\* C20 as stated: a get_connection call ends by yielding a connection or by raising
\* ConnectionError, and no other way.
C20_YieldsOrConnectionError == \A t \in Callers : caller[t] # "raw"

\* C20: every get_connection call comes to an end: it yields a connection that passed
\* SELECT 1, or raises ConnectionError after exactly retry_attempts failed attempts, or
\* lets through at once an exception of _create_connection that is not a database
\* error; it never makes more than retry_attempts attempts, and each wait between two
\* attempts is twice the one before.
C20_AcquisitionTerminates ==
    /\ [](\A t \in Callers :
            /\ attempts[t] <= retry_attempts
            /\ caller[t] = "using" => (validated[t] /\ attempts[t] < retry_attempts)
            /\ caller[t] = "failed" => attempts[t] = retry_attempts
            /\ caller[t] = "raw" => ~validated[t]
            /\ Len(waits[t]) = Min(attempts[t], retry_attempts - 1)
            /\ \A i \in 1..Len(waits[t]) :
                   waits[t][i] = IF i = 1 THEN 2 ELSE 2 * waits[t][i - 1])
    /\ \A t \in Callers :
           (caller[t] \in {"loop", "test"}) ~> (caller[t] \in {"using", "failed", "raw"})

C20_Witness ==
    \E t \in Callers : caller[t] = "failed" /\ waits[t] = <<2, 4>>

\* C21: at no time do two sync records of the same date range both have the status
\* PROCESSING, also when two chunked-sync invocations overlap.
C21_OneProcessingPerRange ==
    \A i, j \in 1..Len(sync_state) :
        (/\ sync_state[i].status = "PROCESSING"
         /\ sync_state[j].status = "PROCESSING"
         /\ sync_state[i].start_date = sync_state[j].start_date
         /\ sync_state[i].end_date = sync_state[j].end_date) => i = j

\* C22: in a monitor run the fallback sync of a table has been triggered, once the
\* loop has handled the table, exactly if the table's status is CRITICAL, and is never
\* triggered before; a WARNING table has an alert and no trigger; a CRITICAL table has
\* an alert whether the trigger succeeded or failed.
C22_TriggerIffCritical ==
    freshness_results # <<>> =>
        \A t \in Tables :
            /\ triggered[t] # "no" <=> (t <= processed /\ freshness_results[t] = "CRITICAL")
            /\ (t <= processed /\ freshness_results[t] = "WARNING")
                  => (alerts[t] = "WARNING" /\ triggered[t] = "no")
            /\ (t <= processed /\ freshness_results[t] = "CRITICAL") => alerts[t] # "none"

\* A run has handled a CRITICAL table whose trigger failed, a CRITICAL table whose
\* trigger succeeded and a WARNING table.
C22_Witness ==
    /\ freshness_results # <<>>
    /\ processed = Len(freshness_results)
    /\ \E a, b, c \in Tables :
          /\ freshness_results[a] = "CRITICAL" /\ triggered[a] = "failed"
          /\ alerts[a] = "CRITICAL"
          /\ freshness_results[b] = "CRITICAL" /\ triggered[b] = "ok"
          /\ freshness_results[c] = "WARNING" /\ alerts[c] = "WARNING"

\* The standard name of a BigQuery type (INTEGER, FLOAT and BOOLEAN are the legacy names
\* of INT64, FLOAT64 and BOOL).
C23_Standard(fields) ==
    [i \in 1..Len(fields) |->
        CASE fields[i] = "INTEGER" -> "INT64"
          [] fields[i] = "FLOAT" -> "FLOAT64"
          [] fields[i] = "BOOLEAN" -> "BOOL"
          [] OTHER -> fields[i]]

\* C23: whatever the types of the source columns, the schema a pipeline's mapper derived
\* has, column by column, the BigQuery types every other pipeline's mapper gives.
C23_MappersAgree ==
    bq_schema.mapper # "none" =>
        /\ C23_Standard(bq_schema.fields)
              = C23_Standard(create_bigquery_schema(bq_schema.columns))
        /\ C23_Standard(bq_schema.fields)
              = C23_Standard(create_bq_tables_if_not_exist(bq_schema.columns))
        /\ C23_Standard(bq_schema.fields)
              = C23_Standard(get_bq_schema_from_snowflake(bq_schema.columns))

\* C24: whatever the values of a fetched row, the dict a pipeline's normalizer made of
\* it is the dict every other pipeline's normalizer makes, and a None stays None.
C24_NormalizersAgree ==
    row_dicts.normalizer # "none" =>
        /\ row_dicts.row_dict = convert_row_to_dict(row_dicts.columns, row_dicts.row)
        /\ row_dicts.row_dict = budget_row_dict(row_dicts.columns, row_dicts.row)
        /\ \A i \in 1..Len(row_dicts.row) :
              row_dicts.row[i].type = "NoneType" => row_dicts.row_dict[i].type = "NoneType"

\* C25: a step of a paginated loop that moves the offset on after a non-empty batch adds
\* to it the number of rows the batch returned, and no step inside an invocation makes
\* the offset smaller.
C25_OffsetAdvancesByRowsReturned ==
    [][/\ (rows # <<>> /\ pc \notin {"idle", "start", "done"} /\ offset' # offset)
            => offset' = offset + Len(rows)
       /\ (pc \notin {"idle", "start", "done"}) => offset' >= offset]_vars

\* C26: in the dict convert_row_to_dict makes of a row, None is None, a date or datetime
\* is its ISO-8601 string, a Decimal is its decimal string, a list is a string, and
\* every other value is the value itself.
C26_ConvertRowToDict ==
    row_dicts.normalizer = "base" =>
        \A i \in 1..Len(row_dicts.row) :
            LET value == row_dicts.row[i]
                out == row_dicts.row_dict[i]
            IN  CASE value.type = "NoneType" -> out.type = "NoneType"
                  [] value.type \in {"date", "datetime"} -> out = isoformat(value)
                  [] value.type = "Decimal" ->
                        out = [type |-> "str",
                               v |-> ToString(value.units) \o "." \o ToString(value.tenths)]
                  [] value.type = "list" -> out.type = "str"
                  [] OTHER -> out = value

\* C27: a get_snowflake_credentials call that found the cache non-empty and younger than
\* the TTL, with force_refresh false, returned the cached dict and read no secret from
\* the store; a call with force_refresh true or an empty or expired cache that returned
\* has read every secret from the store and returned the store's values.
C27_CachedOrReadFromStore ==
    credentials_call.made =>
        IF credentials_call.valid
        THEN /\ credentials_call.reads = {}
             /\ credentials_call.result = credentials_call.cached
        ELSE ~credentials_call.raised =>
                /\ credentials_call.reads = DOMAIN SecretIds
                /\ credentials_call.result = credentials_call.store

\* The days some COMPLETED record covers.
C28_Covered ==
    {d \in 0..LastDay : \E i \in 1..Len(sync_state) :
        /\ sync_state[i].status = "COMPLETED"
        /\ sync_state[i].start_date <= d /\ d <= sync_state[i].end_date}

C29_WeekCoversSpan ==
    Cardinality(ranges) = 7 =>
        \A d \in -60..60 :
            (\E r, s \in ranges : r.start_date <= d /\ d <= s.end_date)
                => \E r \in ranges : r.start_date <= d /\ d <= r.end_date

\* C30: after a live run of the deduplication sync, every work item that has a row in
\* the Snowflake source table has in every BigQuery table the rows it had before the
\* run.
C30_OnlyOrphansLoseRows ==
    (dedup_run.ran /\ ~dedup_run.dry_run) =>
        \A w \in {r[1] : r \in sf_details} :
            /\ {r \in bq_details : r[1] = w} = {r \in dedup_run.details : r[1] = w}
            /\ \A t \in OtherTables : (w \in bq_others[t]) = (w \in dedup_run.others[t])

\* The dry_run of the request is true or the request does not set it.
C31_DryRun ==
    \/ dedup_run.request.dry_run = "absent"
    \/ dedup_run.request.body = "json" /\ dedup_run.request.dry_run = "True"
    \/ dedup_run.request.body = "args" /\ dedup_run.request.dry_run \in {"true", "TRUE"}

\* C31: when the request's dry_run is true, or the request does not set it, the
\* deduplication sync runs no DELETE and every BigQuery table has after the run the
\* content it had before.
C31_DryRunDeletesNothing ==
    (dedup_run.ran /\ C31_DryRun) =>
        /\ dedup_run.deleted_from = {}
        /\ bq_details = dedup_run.details
        /\ bq_others = dedup_run.others

\* A request without dry_run has run over a table that holds rows of an orphan.
C31_Witness ==
    /\ dedup_run.ran
    /\ dedup_run.request = [body |-> "json", dry_run |-> "absent", work_item_id |-> FALSE]
    /\ dedup_run.orphaned_items # {}
    /\ \E r \in bq_details : r[1] \in dedup_run.orphaned_items

\* C32: when cleanup_duplicate_time_entries has completed, every (REPORTING_DATE,
\* TIME_ENTRY_ID) group that had a row before it has exactly one row, and that row has
\* the greatest bq_ingestion_timestamp the group had.
C32_OneLatestRowPerGroup ==
    entry_sync.pc = "cleaned" =>
        \A key \in EntryKeys :
            Group(entry_sync.before, key) # {} =>
                /\ Cardinality(Group(time_entries, key)) = 1
                /\ \A i \in Group(time_entries, key), j \in Group(entry_sync.before, key) :
                       time_entries[i].bq_ingestion_timestamp
                           >= entry_sync.before[j].bq_ingestion_timestamp

\* C33: in an invocation of the unified pipeline whose request has dry_run true no
\* step creates a staging table, loads a batch or changes the target table.
C33_DryRunValidatesOnly ==
    [][dry_run' => UNCHANGED <<target, targetExists, staging, stagingExists,
                               stagingCreated, batches, stmts>>]_vars

\* A dry run has given its response while the source holds rows the target lacks.
C33_Witness ==
    /\ dry_run
    /\ pc = "done"
    /\ outcome = "success"
    /\ \E r \in source : target[r] = 0

\* C34: a table reported OK has a known latest REPORTING_DATE at most
\* warning_threshold_days behind the current date, a table reported WARNING one that
\* is more than warning_threshold_days and at most critical_threshold_days behind, and
\* a table whose query gave a result is reported CRITICAL exactly when its latest
\* REPORTING_DATE is more than critical_threshold_days behind.
C34_StatusFollowsDaysBehind ==
    freshness_results # <<>> =>
        \A t \in Tables :
            LET known == latest_dates[t].latest_date # "NULL"
                days_behind == latest_dates[t].days_behind
            IN  /\ freshness_results[t] = "OK" =>
                       known /\ days_behind <= warning_threshold_days
                /\ freshness_results[t] = "WARNING" =>
                       /\ known
                       /\ days_behind > warning_threshold_days
                       /\ days_behind <= critical_threshold_days
                /\ freshness_results[t] # "ERROR" =>
                       (freshness_results[t] = "CRITICAL"
                            <=> known /\ days_behind > critical_threshold_days)

\* The table that holds every row of every batch of a sequence once.
RECURSIVE C35_Staged(_)
C35_Staged(fetched) ==
    IF fetched = <<>> THEN EmptyTable(pipeline)
    ELSE AppendRows(C35_Staged(SubSeq(fetched, 1, Len(fetched) - 1)), fetched[Len(fetched)])

\* C35: when the daily work item details sync reaches its MERGE, the staging table
\* holds each batch it fetched exactly once, whether or not a load attempt raised and
\* was retried.
C35_EachBatchStagedOnce ==
    (pipeline = DetailsDaily /\ pc = "merge") => staging = C35_Staged(batches)

\* C36: a sync record has the status PROCESSING only while the invocation that created
\* it is still running; once that invocation has returned the record is COMPLETED or
\* FAILED.
C36_NoProcessingAfterReturn ==
    \A i \in 1..Len(sync_state) :
        sync_state[i].status = "PROCESSING" =>
            \E t \in Callers : chunk[t].pc = "process" /\ chunk[t].sync_id = i

\* C37: active_connections lies between 0 and max_connections and is the number of
\* connections the pool created that are still open: those in the pool and those a
\* caller of get_connection holds.
C37_ActiveCountsOpenConnections ==
    /\ 0 <= active_connections
    /\ active_connections <= max_connections
    /\ active_connections = pool + Cardinality({t \in Workers : caller[t] \in {"test", "using"}})
====
